---- MODULE Spec2Model ----
(***************************************************************************)
(* StitchIt video assembly service.                                        *)
(*                                                                         *)
(*   VideoProcessor.processVideo       the pipeline orchestrator           *)
(*   MuxService.uploadVideo            the remote asset materialization    *)
(*   FFmpegService.calculateTransitionOffsets   the timing calculator      *)
(*   FFmpegService.buildFilterComplex  the filter graph builder            *)
(*   FFmpegService.processVideo        the transcode command               *)
(*   FileManager.cleanupDirectory      workspace removal                   *)
(*   authenticateApiKey, /health, /process-video   the HTTP server         *)
(*   createTempDirectory, generateFileName, generateBlobPath   the paths   *)
(*                                     of two concurrent requests          *)
(*                                                                         *)
(* Durations are integers counted in tenths of a second (0.5s = 5).        *)
(***************************************************************************)
EXTENDS Integers, Sequences, FiniteSets, TLC

\* ---------------------------------------------------------------- bounds
MaxClips == 2

\* -------------------------------------------------------- program constants
maxStatusRetries == 10
maxRetries == 30
DefaultTransition == 5

\* ------------------------------------------------------------ input domains
AssetIds == {"a1", "a2"}
NoId == "none"
CalcDurations == {10, 80, 600}
CalcTransitions == {1, 5, 50}
SongDurations == {120, 200}
GraphDurations == {30, 80}
GraphTransitions == {10, 20}
ErrorMessages == {<<>>, <<"e1">>}
PlaybackLists == {<<>>, <<"p1", "p2">>, <<"">>}

VARIABLES
  pc,            \* position of processVideo
  request,       \* requestData as received
  vreq,          \* the validated request
  hasContext,    \* context?.tempDir is set
  wsExists,      \* the workspace directory /tmp/<processId> exists
  outputExists,  \* final_video.mp4 exists in the workspace
  thumbExists,   \* thumbnail.jpg exists in the workspace
  dlCount,       \* number of assets downloaded so far
  metadata,      \* context.metadata
  err,           \* the error caught by processVideo's catch block
  failedAt,      \* the stage in which the error was raised
  cleanupLog,    \* outcomes of the cleanupDirectory calls, in order
  result,        \* what processVideo returned or threw
  blobPc,        \* uploadOutput branch
  thumbPc,       \* uploadThumbnail branch
  muxPc,         \* position of MuxService.uploadVideo
  uploadAssetId, \* upload.asset_id of the created direct upload
  assetId,       \* local assetId
  statusRetries, \* local statusRetries
  retries,       \* local retries
  asset,         \* local asset: the last asset retrieved successfully
  lastThrew,     \* the most recent asset retrieve raised an exception
  statusThrew,   \* the most recent upload-status retrieve raised an exception
  erroredSeen,   \* some asset retrieve returned status 'errored'
  statusCalls,   \* number of uploads.retrieve calls made
  assetCalls,    \* number of assets.retrieve calls made
  assetWaits,    \* number of 10s waits performed in the asset loop
  polledIds,     \* identifiers passed to assets.retrieve
  putResponse,   \* outcome of the PUT of the file's bytes to upload.url
  muxOut,        \* what MuxService.uploadVideo returned or threw
  clipDurations, \* argument of calculateTransitionOffsets
  transitionDuration, \* argument of calculateTransitionOffsets
  offsets,       \* value returned by calculateTransitionOffsets
  calcPc,        \* "called" before calculateTransitionOffsets returns, then "returned"
  downloaded,    \* the local files written by downloadFile, in download order
  dlLog,         \* the outcome of every downloadFile call, in call order
  localFiles,    \* context.localFiles
  ffmpegCmd,     \* the ffmpeg command that FFmpegService.processVideo ran
  stageLog,      \* the stages of processVideo that have started, in order
  stagesDone,    \* the stages of processVideo that returned without throwing
  httpReq,       \* the HTTP request: its path and its x-api-key header
  serverKey,     \* process.env.X_API_KEY
  httpRes,       \* the HTTP response sent: status code and body
  procs,         \* two VideoProcessor instances: processId, songId, position
  diskOps        \* the file and blob operations made so far, with their paths

orchVars == <<pc, request, vreq, hasContext, dlCount, metadata, err, failedAt,
              result, blobPc, thumbPc>>
fsVars == <<wsExists, outputExists, thumbExists, cleanupLog>>
muxVars == <<muxPc, uploadAssetId, assetId, statusRetries, retries, asset,
             lastThrew, statusThrew, erroredSeen, statusCalls, assetCalls, assetWaits,
             polledIds, putResponse, muxOut>>
calcVars == <<clipDurations, transitionDuration, offsets, calcPc>>
ctxVars == <<downloaded, dlLog, localFiles, ffmpegCmd>>
logVars == <<stageLog, stagesDone>>
httpVars == <<httpReq, serverKey, httpRes>>
pathVars == <<procs, diskOps>>
vars == <<orchVars, fsVars, muxVars, calcVars, ctxVars, logVars, httpVars, pathVars>>

\* ------------------------------------------------------------------ errors
Detail(msg, arg) == [msg |-> msg, arg |-> arg]
NoDetail == Detail("", <<>>)
ProcessingError(code, stage, detail) ==
  [isPE |-> TRUE, code |-> code, stage |-> stage, detail |-> detail]
PlainError(detail) ==
  [isPE |-> FALSE, code |-> "Error", stage |-> "none", detail |-> detail]
NoErr == [isPE |-> FALSE, code |-> "none", stage |-> "none", detail |-> NoDetail]

\* ------------------------------------------------- FFmpegService (timing)
RECURSIVE OffsetsFrom(_, _, _, _)
OffsetsFrom(d, t, i, cumulativeDuration) ==
  IF i > Len(d) - 1 THEN <<>>
  ELSE <<cumulativeDuration + d[i] - t>>
         \o OffsetsFrom(d, t, i + 1, cumulativeDuration + d[i] - t)

\* the loop runs over every clip instead of stopping before the last one
calculateTransitionOffsets_IncludesLast(d, t) == OffsetsFrom(Append(d, 0), t, 1, 0)

\* the transition is not subtracted from the running total
calculateTransitionOffsets_FadeNotSubtracted(d, t) == OffsetsFrom(d, 0, 1, 0)

\* a single clip still gets one offset
calculateTransitionOffsets_AtLeastOne(d, t) ==
  IF Len(d) = 1 THEN <<d[1] - t>> ELSE OffsetsFrom(d, t, 1, 0)

calculateTransitionOffsets(d, t) == OffsetsFrom(d, t, 1, 0)


\* ---------------------------------------------------------- FileManager
\* cleanupDirectory(dirPath): fs.access, then fs.rm; a failing rm raises
\* CLEANUP_ERROR and may have removed part of the tree
CleanupOutcomes == {"removed", "rm_failed", "rm_partial", "no_access"}

\* the removal is reported but fs.rm is never called
CleanupDirectory_LeavesTree(o) ==
  /\ cleanupLog' = Append(cleanupLog, IF wsExists THEN "removed" ELSE "absent")
  /\ UNCHANGED <<wsExists, outputExists, thumbExists>>

CleanupDirectory(o) ==
  IF ~wsExists \/ o = "no_access"
  THEN /\ cleanupLog' = Append(cleanupLog, IF wsExists THEN "no_access" ELSE "absent")
       /\ UNCHANGED <<wsExists, outputExists, thumbExists>>
  ELSE IF o = "removed"
  THEN /\ cleanupLog' = Append(cleanupLog, "removed")
       /\ wsExists' = FALSE /\ outputExists' = FALSE /\ thumbExists' = FALSE
  ELSE /\ cleanupLog' = Append(cleanupLog, "CLEANUP_ERROR")
       /\ wsExists' = wsExists
       /\ outputExists' = (outputExists /\ o = "rm_failed")
       /\ thumbExists' = (thumbExists /\ o = "rm_failed")

\* ------------------------------------------------- validation (schemas)
Absent == -1
ValidAspects == {"9:16", "16:9"}
\* request.compressionLevel: one of the three tiers, or undefined
CompressionLevels == {"balanced", "high", "maximum"}
NoLevel == "undefined"

\* the aspect ratio is not checked
IsValidRequest_AnyAspect(r) ==
  /\ Len(r.clips) >= 1 /\ Len(r.clips) <= 50
  /\ \A i \in 1..Len(r.clips) : r.clips[i] >= 10 /\ r.clips[i] <= 600
  /\ r.t = Absent \/ (r.t >= 1 /\ r.t <= 50)

IsValidRequest(r) ==
  /\ Len(r.clips) >= 1 /\ Len(r.clips) <= 50
  /\ \A i \in 1..Len(r.clips) : r.clips[i] >= 10 /\ r.clips[i] <= 600
  /\ r.aspect \in ValidAspects
  /\ r.t = Absent \/ (r.t >= 1 /\ r.t <= 50)

\* the value returned by Joi: defaults filled in, and the keys the schema
\* does not declare (compressionLevel among them) removed by stripUnknown
Validated(r) ==
  [r EXCEPT !.t = IF r.t = Absent THEN DefaultTransition ELSE r.t,
            !.compressionLevel = NoLevel]

\* request.transitionDuration || 0.5
OrDefault(t) == IF t = Absent \/ t = 0 THEN DefaultTransition ELSE t

RECURSIVE SumSeq(_)
SumSeq(q) == IF q = <<>> THEN 0 ELSE Head(q) + SumSeq(Tail(q))

\* ------------------------------------------- FFmpegService (filter graph)
\* the filter graph is a text: stream labels "[..]", filters, and ";" between
\* stages.  It is kept as the sequence of these tokens, in the order in which
\* the code appends them.
Label(kind, i) == [tk |-> "label", name |-> kind, idx |-> i, args |-> <<>>]
FilterTok(name, args) == [tk |-> "filter", name |-> name, idx |-> 0, args |-> args]
Semicolon == [tk |-> "sep", name |-> ";", idx |-> 0, args |-> <<>>]

\* width and height are exchanged between the two aspect ratios
ASPECT_RATIO_CONFIGS_Swapped(a) ==
  CASE a = "9:16" -> [width |-> 1920, height |-> 1080]
    [] a = "16:9" -> [width |-> 1080, height |-> 1920]

ASPECT_RATIO_CONFIGS(a) ==
  CASE a = "9:16" -> [width |-> 1080, height |-> 1920]
    [] a = "16:9" -> [width |-> 1920, height |-> 1080]

\* `[${i}:v]scale=${width}:${height},setsar=1[v${i}];` for i = 0 .. n-1
RECURSIVE ScaleStages(_, _, _)
ScaleStages(i, n, cfg) ==
  IF i >= n THEN <<>>
  ELSE <<Label("in", i), FilterTok("scale", <<cfg.width, cfg.height>>),
         FilterTok("setsar", <<1>>), Label("v", i), Semicolon>>
       \o ScaleStages(i + 1, n, cfg)

\* every fade stage writes an intermediate label, the last one included
nextLabel_NeverVideoOut(i, n) == Label("fade", i)

\* i === n - 1 ? 'video_out' : `v${i}_fade`
nextLabel(i, n) == IF i = n - 1 THEN Label("video_out", 0) ELSE Label("fade", i)

\* `[${currentLabel}][v${i}]xfade=transition=fade:duration=..:offset=..[${nextLabel}];`
\* for i = 1 .. n-1, with offset = transitionOffsets[i - 1] (counted from 0)
RECURSIVE XfadeStages(_, _, _, _, _)
XfadeStages(i, n, currentLabel, td, transitionOffsets) ==
  IF i >= n THEN <<>>
  ELSE <<currentLabel, Label("v", i),
         FilterTok("xfade", <<td, transitionOffsets[i]>>),
         nextLabel(i, n), Semicolon>>
       \o XfadeStages(i + 1, n, nextLabel(i, n), td, transitionOffsets)

\* buildFilterComplex(context), as the text it returns
buildFilterComplex(req, files, md) ==
  LET n == Len(files.videoClips)
      cfg == ASPECT_RATIO_CONFIGS(req.aspect)
  IN ScaleStages(0, n, cfg)
     \o (IF n = 1 THEN <<Label("v", 0)>>
         ELSE XfadeStages(1, n, Label("v", 0), OrDefault(req.t), md.transitionOffsets))
     \o (IF n = 1
         THEN <<Label("v", 0), FilterTok("ass", <<>>), Label("vout", 0)>>
         ELSE <<Label("video_out", 0), FilterTok("ass", <<>>), Label("vout", 0)>>)

\* the stages of a filter graph text: the text is cut at every ";", and in
\* each piece the labels before the first filter are the stage's inputs and
\* the labels after the last filter are its outputs
RECURSIVE SplitStages(_, _)
SplitStages(toks, cur) ==
  IF toks = <<>> THEN (IF cur = <<>> THEN <<>> ELSE <<cur>>)
  ELSE IF Head(toks).tk = "sep" THEN <<cur>> \o SplitStages(Tail(toks), <<>>)
  ELSE SplitStages(Tail(toks), Append(cur, Head(toks)))

RECURSIVE LeadingLabels(_)
LeadingLabels(piece) ==
  IF piece = <<>> \/ Head(piece).tk # "label" THEN <<>>
  ELSE <<Head(piece)>> \o LeadingLabels(Tail(piece))

RECURSIVE TrailingLabels(_)
TrailingLabels(piece) ==
  IF piece = <<>> \/ piece[Len(piece)].tk # "label" THEN <<>>
  ELSE Append(TrailingLabels(SubSeq(piece, 1, Len(piece) - 1)), piece[Len(piece)])

IsFilterTok(tok) == tok.tk = "filter"

StageOf(piece) ==
  [inputs |-> LeadingLabels(piece),
   filters |-> SelectSeq(piece, IsFilterTok),
   outputs |-> TrailingLabels(piece)]

GraphStages(toks) ==
  LET pieces == SplitStages(toks, <<>>)
  IN [k \in 1..Len(pieces) |-> StageOf(pieces[k])]

\* ------------------------------------------ FFmpegService (transcode command)
\* the local files of a request: clip_<i>.mp4, subtitles.ass, song.mp3
ClipFile(i) == <<"clip", i>>
AssFile == <<"subtitles", 0>>
SongFile == <<"song", 0>>
NoFile == <<"", 0>>
NoFiles == [videoClips |-> <<>>, assFile |-> NoFile, songFile |-> NoFile]

\* the clips are fetched from the last to the first
DownloadOrder_Reversed(n) == [i \in 1..n |-> ClipFile(n + 1 - i)] \o <<AssFile, SongFile>>

\* downloadAssets fetches the clips in order, then the subtitles, then the song
DownloadOrder(n) == [i \in 1..n |-> ClipFile(i)] \o <<AssFile, SongFile>>

\* the audio of the last clip is mapped instead of the song
AudioMapIndex_LastClip(files) == Len(files.videoClips) - 1

\* '-map', `${localFiles.videoClips.length}:a`: input indices count from 0
AudioMapIndex(files) == Len(files.videoClips)

\* the total clip duration is used as the ceiling
DurationCeiling_ClipTotal(md) == md.totalClipDuration

\* '-t', metadata.songDuration.toString()
DurationCeiling(md) == md.songDuration

NoCmd == [ran |-> FALSE, inputs |-> <<>>, filter |-> <<>>, mapVideo |-> Label("", 0),
          mapAudio |-> -1, preset |-> "", crf |-> 0, t |-> 0]

\* request.compressionLevel || 'high', looked up in compressionSettings
CompressionSettings(level) ==
  CASE level = "balanced" -> [crf |-> 25, preset |-> "medium"]
    [] level = "high" -> [crf |-> 28, preset |-> "slower"]
    [] level = "maximum" -> [crf |-> 32, preset |-> "veryslow"]
EncodingSettings(req) ==
  CompressionSettings(IF req.compressionLevel = NoLevel THEN "high"
                      ELSE req.compressionLevel)

\* the command of FFmpegService.processVideo: the inputs in the order of the
\* input() calls, the complex filter, the two -map options and -t
FfmpegCommand(req, files, md) ==
  [ran |-> TRUE,
   inputs |-> files.videoClips \o <<files.songFile>> \o <<files.assFile>>,
   filter |-> buildFilterComplex(req, files, md),
   mapVideo |-> Label("vout", 0),
   mapAudio |-> AudioMapIndex(files),
   preset |-> EncodingSettings(req).preset,
   crf |-> EncodingSettings(req).crf,
   t |-> DurationCeiling(md)]

\* ------------------------------------------------------- VideoProcessor
NoMetadata == [songDuration |-> 0, totalClipDuration |-> 0, transitionOffsets |-> <<>>]
NoRequest == [clips |-> <<>>, aspect |-> "", t |-> Absent, compressionLevel |-> NoLevel]
NoResult == [status |-> "none", error |-> NoErr, muxAssetId |-> NoId,
             muxPlaybackId |-> "", duration |-> 0]

\* the workspace is removed after every error
ShouldCleanup_AnyError(hasCtx, e) == hasCtx

\* the workspace is never removed on the error path
ShouldCleanup_Never(hasCtx, e) == FALSE

\* the condition of the catch block (line 121)
ShouldCleanup(hasCtx, e) == hasCtx /\ ~(e.isPE /\ e.stage = "output_upload")

\* whatever was caught is thrown again unchanged
Rethrown_AsIs(e) == e

\* every caught error is wrapped, a ProcessingError included
Rethrown_AlwaysWrapped(e) ==
  ProcessingError("FFMPEG_PROCESSING_ERROR", "video_processing", e.detail)

\* lines 132-142: rethrow a ProcessingError, wrap anything else
Rethrown(e) ==
  IF e.isPE THEN e
  ELSE ProcessingError("FFMPEG_PROCESSING_ERROR", "video_processing", e.detail)

\* BlobService.uploadVideo's catch (blobService.ts lines 59-70)
\* the blob upload's failure is reported at the stage of the transcode
BlobUploadError_AtVideoProcessing ==
  ProcessingError("UPLOAD_FAILED", "video_processing",
                  Detail("Failed to upload video to Vercel Blob storage", <<>>))

BlobUploadError ==
  ProcessingError("UPLOAD_FAILED", "output_upload",
                  Detail("Failed to upload video to Vercel Blob storage", <<>>))

\* BlobService.uploadThumbnail: the error of a rejected thumbnail upload
ThumbnailUploadError ==
  ProcessingError("UPLOAD_FAILED", "output_upload",
                  Detail("Failed to upload thumbnail to Vercel Blob storage", <<>>))

\* the statement that follows the pipeline jumps from the render to the uploads
StageAfter_SkipsThumbnail(p) ==
  CASE p = "validate" -> "verify"
    [] p = "verify" -> "createWorkspace"
    [] p = "createWorkspace" -> "download"
    [] p = "download" -> "metadata"
    [] p = "metadata" -> "transcode"
    [] p = "transcode" -> "startUploads"
    [] p = "thumbnail" -> "startUploads"
    [] p = "startUploads" -> "fork"
    [] p = "fork" -> "cleanup"
    [] p = "cleanup" -> "done"

\* Promise.all is not awaited: cleanup follows the start of the uploads
StageAfter_UploadsNotAwaited(p) ==
  CASE p = "validate" -> "verify"
    [] p = "verify" -> "createWorkspace"
    [] p = "createWorkspace" -> "download"
    [] p = "download" -> "metadata"
    [] p = "metadata" -> "transcode"
    [] p = "transcode" -> "thumbnail"
    [] p = "thumbnail" -> "startUploads"
    [] p = "startUploads" -> "cleanup"
    [] p = "fork" -> "cleanup"
    [] p = "cleanup" -> "done"

\* the statements of the try block, in program order (lines 44-111)
StageAfter(p) ==
  CASE p = "validate" -> "verify"
    [] p = "verify" -> "createWorkspace"
    [] p = "createWorkspace" -> "download"
    [] p = "download" -> "metadata"
    [] p = "metadata" -> "transcode"
    [] p = "transcode" -> "thumbnail"
    [] p = "thumbnail" -> "startUploads"
    [] p = "startUploads" -> "fork"
    [] p = "fork" -> "cleanup"
    [] p = "cleanup" -> "done"

\* the catch of cleanup() rethrows what cleanupDirectory raised
CleanupStageThrows_Rethrown(threw) == threw

\* cleanup()'s own catch (lines 276-279) logs the error and returns
CleanupStageThrows(threw) == FALSE

\* the catch block's cleanupDirectory call is awaited without a handler
ErrorPathCleanupThrows_Rethrown(threw) == threw

\* `.catch(() => {})` on the catch block's cleanupDirectory call (line 123)
ErrorPathCleanupThrows(threw) == FALSE

CleanupError ==
  ProcessingError("CLEANUP_ERROR", "cleanup",
                  Detail("Failed to cleanup temporary directory", <<>>))

\* the error is recorded and the pipeline goes on with the next statement
Raise_ContinuesPipeline(stage, e) ==
  /\ pc' = StageAfter(pc)
  /\ err' = e
  /\ failedAt' = stage

\* a stage of the try block raised e
Raise(stage, e) ==
  /\ pc' = "catch"
  /\ err' = e
  /\ failedAt' = stage

\* the continuation runs as soon as one branch settles last or rejects, and a
\* rejection is not thrown into processVideo
Join_RejectionIgnored(rejected, e, branch, allFulfilled) ==
  IF pc = "fork" /\ (rejected \/ allFulfilled)
  THEN pc' = StageAfter("fork") /\ UNCHANGED <<err, failedAt>>
  ELSE UNCHANGED <<pc, err, failedAt>>

\* await Promise.all([...]): the continuation of processVideo runs as soon
\* as one branch rejects or the last branch fulfils
Join(rejected, e, branch, allFulfilled) ==
  IF pc = "fork" /\ rejected THEN Raise(branch, e)
  ELSE IF pc = "fork" /\ allFulfilled
  THEN pc' = StageAfter("fork") /\ UNCHANGED <<err, failedAt>>
  ELSE UNCHANGED <<pc, err, failedAt>>

\* ------------------------------------------------------------ MuxService
NoAsset == [status |-> "none", playback_ids |-> <<>>, errors |-> <<>>]
AssetResponses ==
  {[status |-> "preparing", playback_ids |-> <<>>, errors |-> <<>>]}
  \cup {[status |-> "ready", playback_ids |-> p, errors |-> <<>>] : p \in PlaybackLists}
  \cup {[status |-> "errored", playback_ids |-> <<>>, errors |-> m] : m \in ErrorMessages}

NoMuxOut == [kind |-> "none", assetId |-> NoId, playbackId |-> "", error |-> NoErr]
MuxReturn(a, p) == [kind |-> "returned", assetId |-> a, playbackId |-> p, error |-> NoErr]
MuxThrow(detail) ==
  [kind |-> "thrown", assetId |-> NoId, playbackId |-> "",
   error |-> ProcessingError("UPLOAD_FAILED", "output_upload", detail)]

\* asset.status === 'ready' && asset.playback_ids && asset.playback_ids.length > 0
AssetIsReady(a) == a.status = "ready" /\ Len(a.playback_ids) > 0

\* asset.errors?.messages?.join(', ') || 'Unknown error'
AssetErrorDetail(a) ==
  Detail("Mux asset processing failed",
         IF a.errors = <<>> THEN <<"Unknown error">> ELSE a.errors)

\* the last playback entry is taken instead of the first
FirstPlaybackId_Last(a) == a.playback_ids[Len(a.playback_ids)]

FirstPlaybackId(a) == a.playback_ids[1]

\* the upload status is polled whether or not the asset id is known
StatusLoopContinues_IgnoresAssetId(sr, id) == sr < maxStatusRetries

\* one upload-status poll too many
StatusLoopContinues_OffByOne(sr, id) == sr <= maxStatusRetries /\ id = NoId

\* while (statusRetries < maxStatusRetries && !assetId)
StatusLoopContinues(sr, id) == sr < maxStatusRetries /\ id = NoId

\* one asset poll too many
AssetLoopContinues_OffByOne(r) == r <= maxRetries

\* while (retries < maxRetries)
AssetLoopContinues(r) == r < maxRetries

\* the catch block rethrows on every attempt
CatchRethrows_Always(r) == TRUE

\* catch (error) { if (retries === maxRetries - 1) throw error; ... }
CatchRethrows(r) == r = maxRetries - 1

\* one counter shared by the two polling loops
InitialRetries_Shared(sr) == sr

\* let retries = 0, declared after the upload-status block
InitialRetries(sr) == 0

\* lines 183-203: the checks after the asset loop and the returned value
AfterAssetLoop(id, a) ==
  IF ~AssetIsReady(a)
  THEN MuxThrow(Detail("Mux asset did not become ready within the timeout period", <<>>))
  ELSE IF FirstPlaybackId(a) = ""
  THEN MuxThrow(Detail("Mux asset does not have a valid playback ID", <<>>))
  ELSE MuxReturn(id, FirstPlaybackId(a))

\* lines 144-152: the assetId check and the entry into the asset loop
EnterAssetPhase(id, sr) ==
  IF id = NoId
  THEN /\ muxPc' = "done"
       /\ muxOut' = MuxThrow(Detail("Mux upload did not return an asset ID after checking status", <<>>))
       /\ UNCHANGED retries
  ELSE /\ retries' = InitialRetries(sr)
       /\ IF AssetLoopContinues(retries')
          THEN muxPc' = "assetRetrieve" /\ muxOut' = muxOut
          ELSE muxPc' = "done" /\ muxOut' = AfterAssetLoop(id, asset)

MuxFail(detail) ==
  /\ muxPc' = "done"
  /\ muxOut' = MuxThrow(detail)


\* what a step of uploadVideo leaves alone, and what its settling does to
\* the Promise.all that processVideo awaits
MuxSettles ==
  /\ Join(muxOut'.kind = "thrown", muxOut'.error, "mux",
          muxOut'.kind = "returned" /\ blobPc = "done" /\ thumbPc = "done")
  /\ UNCHANGED <<request, vreq, hasContext, dlCount, metadata, result, blobPc, thumbPc>>
  /\ UNCHANGED <<fsVars, calcVars, ctxVars, logVars, httpVars, pathVars>>

\* fs.stat(localFilePath)
MuxStat ==
  /\ muxPc = "stat"
  /\ \E ok \in BOOLEAN :
       IF ok /\ outputExists
       THEN muxPc' = "create" /\ muxOut' = muxOut
       ELSE MuxFail(Detail("ENOENT", <<>>))
  /\ UNCHANGED <<uploadAssetId, assetId, statusRetries, retries, asset, lastThrew, statusThrew,
                 erroredSeen, statusCalls, assetCalls, assetWaits, polledIds, putResponse>>
  /\ MuxSettles

\* this.mux.video.uploads.create(...)
MuxCreate ==
  /\ muxPc = "create"
  /\ \/ /\ MuxFail(Detail("uploads.create failed", <<>>))
        /\ UNCHANGED uploadAssetId
     \/ \E id \in AssetIds \cup {NoId} :
          /\ uploadAssetId' = id
          /\ muxPc' = "put"
          /\ muxOut' = muxOut
  /\ UNCHANGED <<assetId, statusRetries, retries, asset, lastThrew, statusThrew,
                 erroredSeen, statusCalls, assetCalls, assetWaits, polledIds, putResponse>>
  /\ MuxSettles

\* the response status is not checked
ResponseOk_Unchecked(response) == TRUE

\* uploadResponse.ok
ResponseOk(response) == response = "2xx"

\* fs.readFile, the PUT to upload.url, the uploadResponse.ok check, and
\* let assetId = upload.asset_id
MuxPut ==
  /\ muxPc = "put"
  /\ \E outcome \in {"read_failed", "fetch_threw", "2xx", "non_2xx"} :
       /\ putResponse' = IF outputExists THEN outcome ELSE "read_failed"
       /\ IF putResponse' \in {"2xx", "non_2xx"} /\ ResponseOk(putResponse')
          THEN /\ assetId' = uploadAssetId
               /\ statusRetries' = 0
               /\ IF StatusLoopContinues(0, assetId')
                  THEN muxPc' = "statusPoll" /\ UNCHANGED <<muxOut, retries>>
                  ELSE EnterAssetPhase(assetId', 0)
          ELSE /\ MuxFail(Detail(IF putResponse' = "non_2xx" THEN "Upload failed with status"
                                 ELSE IF putResponse' = "fetch_threw" THEN "fetch failed"
                                 ELSE "ENOENT", <<>>))
               /\ UNCHANGED <<assetId, statusRetries, retries>>
  /\ UNCHANGED <<uploadAssetId, asset, lastThrew, statusThrew, erroredSeen, statusCalls,
                 assetCalls, assetWaits, polledIds>>
  /\ MuxSettles

\* one iteration of the upload-status loop: wait 2s, uploads.retrieve,
\* statusRetries++ on both the normal and the exceptional path
MuxStatusPoll ==
  /\ muxPc = "statusPoll"
  /\ StatusLoopContinues(statusRetries, assetId)
  /\ \E r \in AssetIds \cup {NoId, "exception"} :
       /\ assetId' = IF r = "exception" THEN assetId ELSE r
       /\ statusThrew' = (r = "exception")
       /\ statusRetries' = statusRetries + 1
       /\ statusCalls' = statusCalls + 1
       /\ IF StatusLoopContinues(statusRetries', assetId')
          THEN muxPc' = "statusPoll" /\ UNCHANGED <<muxOut, retries>>
          ELSE EnterAssetPhase(assetId', statusRetries')
  /\ UNCHANGED <<uploadAssetId, asset, lastThrew, erroredSeen,
                 assetCalls, assetWaits, polledIds, putResponse>>
  /\ MuxSettles

\* the try part of one iteration of the asset loop, up to the wait
MuxAssetRetrieve ==
  /\ muxPc = "assetRetrieve"
  /\ AssetLoopContinues(retries)
  /\ assetCalls' = assetCalls + 1
  /\ polledIds' = polledIds \cup {assetId}
  /\ \/ \E r \in AssetResponses :
          /\ asset' = r
          /\ lastThrew' = FALSE
          /\ erroredSeen' = (erroredSeen \/ r.status = "errored")
          /\ IF AssetIsReady(r)
             THEN muxPc' = "done" /\ muxOut' = AfterAssetLoop(assetId, r)
             ELSE IF r.status = "errored" /\ CatchRethrows(retries)
             THEN MuxFail(AssetErrorDetail(r))
             ELSE muxPc' = "assetWait" /\ muxOut' = muxOut
     \/ /\ lastThrew' = TRUE
        /\ UNCHANGED <<asset, erroredSeen>>
        /\ IF CatchRethrows(retries)
           THEN MuxFail(Detail("assets.retrieve failed", <<>>))
           ELSE muxPc' = "assetWait" /\ muxOut' = muxOut
  /\ UNCHANGED <<uploadAssetId, assetId, statusRetries, retries, statusThrew, statusCalls,
                 assetWaits, putResponse>>
  /\ MuxSettles

\* the 10s wait and retries++ (lines 165-166 and 178-179), then the loop test
MuxAssetWait ==
  /\ muxPc = "assetWait"
  /\ assetWaits' = assetWaits + 1
  /\ retries' = retries + 1
  /\ IF AssetLoopContinues(retries')
     THEN muxPc' = "assetRetrieve" /\ muxOut' = muxOut
     ELSE muxPc' = "done" /\ muxOut' = AfterAssetLoop(assetId, asset)
  /\ UNCHANGED <<uploadAssetId, assetId, statusRetries, asset, lastThrew, statusThrew,
                 erroredSeen, statusCalls, assetCalls, polledIds, putResponse>>
  /\ MuxSettles

MuxIdle ==
  /\ uploadAssetId = NoId /\ assetId = NoId /\ statusRetries = 0 /\ retries = 0
  /\ asset = NoAsset /\ lastThrew = FALSE /\ statusThrew = FALSE /\ erroredSeen = FALSE
  /\ statusCalls = 0 /\ assetCalls = 0 /\ assetWaits = 0 /\ polledIds = {}
  /\ putResponse = "none"
  /\ muxOut = NoMuxOut

\* -------------------------------------------------------------- HTTP server
NoKey == ""
ApiKeys == {"k1", "k2"}
NoHttpReq == [path |-> "none", key |-> NoKey]
NoHttpRes == [status |-> 0, body |-> "none", code |-> "none", stage |-> "none"]

\* only the presence of the two keys is checked
AuthOutcome_PresenceOnly(provided, valid) ==
  IF valid = NoKey THEN "config_error"
  ELSE IF provided = NoKey THEN "unauthorized"
  ELSE "ok"

\* authenticateApiKey (index.ts lines 18-82): the three checks in order
AuthOutcome(provided, valid) ==
  IF valid = NoKey THEN "config_error"
  ELSE IF provided = NoKey THEN "unauthorized"
  ELSE IF provided # valid THEN "unauthorized"
  ELSE "ok"

\* every failure is a server error
getHttpStatusCode_AlwaysServerError(errorCode) == 500

\* getHttpStatusCode (index.ts lines 197-214)
getHttpStatusCode(errorCode) ==
  CASE errorCode = "VALIDATION_ERROR" -> 400
    [] errorCode = "UNAUTHORIZED" -> 401
    [] errorCode \in {"DOWNLOAD_FAILED", "METADATA_EXTRACTION_ERROR",
                      "FFMPEG_PROCESSING_ERROR", "UPLOAD_FAILED",
                      "CONFIGURATION_ERROR"} -> 500
    [] errorCode = "CLEANUP_ERROR" -> 200
    [] OTHER -> 500

\* the body and status written by the catch block of the /process-video
\* handler (index.ts lines 133-161)
ErrorResponse(e) ==
  IF e.isPE
  THEN [status |-> getHttpStatusCode(e.code), body |-> "failed",
        code |-> e.code, stage |-> e.stage]
  ELSE [status |-> 500, body |-> "failed",
        code |-> "INTERNAL_SERVER_ERROR", stage |-> "unknown"]

HttpIdle == httpReq = NoHttpReq /\ serverKey = NoKey /\ httpRes = NoHttpRes

\* ------------------------------------------- paths of concurrent requests
\* a path is the sequence of its segments, a segment the sequence of the
\* pieces of text it is put together from
ProcessIds == {"u1", "u2"}
SongIds == {"s1", "s2"}
Procs == {1, 2}

\* path.join('/tmp', processId)
WorkspacePath(processId) == <<(<<"tmp">>), <<processId>>>>

\* path.join(tempDir, name)
InWorkspace(tempDir, name) == Append(tempDir, <<name>>)

\* the file name is derived from the song instead of the process
generateFileName_BySong(songId, processId, extension) ==
  <<"final_video_", songId, ".", extension>>

\* `final_video_${processId}.${extension}`
generateFileName(songId, processId, extension) ==
  <<"final_video_", processId, ".", extension>>

\* `videos/${songId}/${fileName}`
generateBlobPath(songId, fileName) == <<(<<"videos">>), <<songId>>, fileName>>

DiskOp(r, op, store, path) == [by |-> r, op |-> op, store |-> store, path |-> path]

PathsIdle == procs = <<>> /\ diskOps = {}

OrchIdle ==
  /\ pc = "idle" /\ request = NoRequest /\ vreq = NoRequest /\ hasContext = FALSE
  /\ dlCount = 0 /\ metadata = NoMetadata /\ err = NoErr /\ failedAt = "none"
  /\ result = NoResult /\ blobPc = "idle" /\ thumbPc = "idle"
  /\ cleanupLog = <<>> /\ thumbExists = FALSE
  /\ downloaded = <<>> /\ dlLog = <<>> /\ localFiles = NoFiles /\ ffmpegCmd = NoCmd
  /\ stageLog = <<>> /\ stagesDone = {}

CalcIdle ==
  clipDurations = <<>> /\ transitionDuration = 0 /\ offsets = <<>> /\ calcPc = "idle"

\* MuxService.uploadVideo called on its own, on a file that may or may not exist
InitMux ==
  /\ OrchIdle /\ CalcIdle /\ MuxIdle /\ HttpIdle /\ PathsIdle
  /\ muxPc = "stat"
  /\ wsExists \in BOOLEAN
  /\ outputExists \in BOOLEAN
  /\ outputExists => wsExists

NextMux == MuxStat \/ MuxCreate \/ MuxPut \/ MuxStatusPoll \/ MuxAssetRetrieve \/ MuxAssetWait

SpecMux == InitMux /\ [][NextMux]_vars

\* ------------------------------------------------ VideoProcessor.processVideo
OrchFrame == UNCHANGED <<muxVars, calcVars, httpVars, pathVars>>

\* Step 1: validateRequest
Validate ==
  /\ pc = "validate"
  /\ stageLog' = Append(stageLog, "Validate")
  /\ IF IsValidRequest(request)
     THEN /\ vreq' = Validated(request)
          /\ pc' = StageAfter("validate")
          /\ stagesDone' = stagesDone \cup {"Validate"}
          /\ UNCHANGED <<err, failedAt>>
     ELSE /\ Raise("validate", ProcessingError("VALIDATION_ERROR", "validation",
                                               Detail("Request validation failed", <<>>)))
          /\ UNCHANGED <<vreq, stagesDone>>
  /\ UNCHANGED <<request, hasContext, dlCount, metadata, result, blobPc, thumbPc>>
  /\ UNCHANGED fsVars /\ UNCHANGED ctxVars /\ OrchFrame

\* Step 2: verifyFFmpegInstallation (verifyFontsDirectory never throws)
VerifyEngine ==
  /\ pc = "verify"
  /\ stageLog' = Append(stageLog, "VerifyEngine")
  /\ \E ok \in BOOLEAN :
       IF ok THEN /\ pc' = StageAfter("verify")
                  /\ stagesDone' = stagesDone \cup {"VerifyEngine"}
                  /\ UNCHANGED <<err, failedAt>>
       ELSE /\ Raise("verify", ProcessingError("FFMPEG_PROCESSING_ERROR", "validation",
                                               Detail("FFmpeg is not installed or not accessible", <<>>)))
            /\ UNCHANGED stagesDone
  /\ UNCHANGED <<request, vreq, hasContext, dlCount, metadata, result, blobPc, thumbPc>>
  /\ UNCHANGED fsVars /\ UNCHANGED ctxVars /\ OrchFrame

\* Step 3: createProcessingContext / FileManager.createTempDirectory
CreateWorkspace ==
  /\ pc = "createWorkspace"
  /\ stageLog' = Append(stageLog, "CreateWorkspace")
  /\ \E ok \in BOOLEAN :
       IF ok
       THEN /\ wsExists' = TRUE
            /\ hasContext' = TRUE
            /\ pc' = StageAfter("createWorkspace")
            /\ stagesDone' = stagesDone \cup {"CreateWorkspace"}
            /\ UNCHANGED <<err, failedAt>>
       ELSE /\ Raise("createWorkspace",
                     ProcessingError("VALIDATION_ERROR", "validation",
                                     Detail("Failed to create temporary directory", <<>>)))
            /\ UNCHANGED <<wsExists, hasContext, stagesDone>>
  /\ UNCHANGED <<request, vreq, dlCount, metadata, result, blobPc, thumbPc>>
  /\ UNCHANGED <<outputExists, thumbExists, cleanupLog>> /\ UNCHANGED ctxVars /\ OrchFrame

\* downloadFile: the request or the write fails, or the file written is empty
DownloadOutcomes == {"ok", "error", "empty_file"}

\* the size check after the download is missing
DownloadFileThrows_EmptyAccepted(outcome) == outcome = "error"

\* downloadFile throws on any error of the request or the write, and on
\* stats.size === 0
DownloadFileThrows(outcome) == outcome \in {"error", "empty_file"}

\* the catch block of downloadFile
DownloadFailed(outcome) ==
  ProcessingError("DOWNLOAD_FAILED", "asset_download",
                  Detail("Failed to download",
                         IF outcome = "empty_file" THEN <<"Downloaded file is empty">>
                         ELSE <<>>))

\* Step 4: FileManager.downloadAssets, one downloadFile per step: the clips
\* in order, then the subtitle file, then the song; its catch block removes
\* the workspace and rethrows.  context.localFiles is assigned once
\* downloadAssets has returned (lines 64-68).
DownloadAsset ==
  /\ pc = "download"
  /\ dlCount < Len(vreq.clips) + 2
  /\ stageLog' = IF dlCount = 0 THEN Append(stageLog, "DownloadAssets") ELSE stageLog
  /\ \E outcome \in DownloadOutcomes :
       /\ dlLog' = Append(dlLog, outcome)
       /\ IF ~DownloadFileThrows(outcome)
          THEN /\ dlCount' = dlCount + 1
               /\ downloaded' = Append(downloaded, DownloadOrder(Len(vreq.clips))[dlCount'])
               /\ IF dlCount' = Len(vreq.clips) + 2
                  THEN /\ pc' = StageAfter("download")
                       /\ stagesDone' = stagesDone \cup {"DownloadAssets"}
                       /\ localFiles' = [videoClips |-> SubSeq(downloaded', 1, Len(vreq.clips)),
                                         assFile |-> downloaded'[Len(vreq.clips) + 1],
                                         songFile |-> downloaded'[Len(vreq.clips) + 2]]
                  ELSE /\ pc' = "download"
                       /\ UNCHANGED <<stagesDone, localFiles>>
               /\ UNCHANGED <<err, failedAt>>
               /\ UNCHANGED fsVars
          ELSE /\ Raise("download", DownloadFailed(outcome))
               /\ \E o \in CleanupOutcomes : CleanupDirectory(o)
               /\ UNCHANGED <<dlCount, downloaded, localFiles, stagesDone>>
  /\ UNCHANGED <<request, vreq, hasContext, metadata, result, blobPc, thumbPc>>
  /\ UNCHANGED ffmpegCmd /\ OrchFrame

\* Step 5: extractMetadata
ExtractMetadata ==
  /\ pc = "metadata"
  /\ stageLog' = Append(stageLog, "ExtractMetadata")
  /\ \/ \E sd \in SongDurations :
          /\ metadata' = [songDuration |-> sd,
                          totalClipDuration |-> SumSeq(vreq.clips),
                          transitionOffsets |->
                            calculateTransitionOffsets(vreq.clips, OrDefault(vreq.t))]
          /\ pc' = StageAfter("metadata")
          /\ stagesDone' = stagesDone \cup {"ExtractMetadata"}
          /\ UNCHANGED <<err, failedAt>>
     \/ /\ Raise("metadata", ProcessingError("METADATA_EXTRACTION_ERROR", "metadata_extraction",
                                             Detail("Failed to extract metadata for song audio", <<>>)))
        /\ UNCHANGED <<metadata, stagesDone>>
  /\ UNCHANGED <<request, vreq, hasContext, dlCount, result, blobPc, thumbPc>>
  /\ UNCHANGED fsVars /\ UNCHANGED ctxVars /\ OrchFrame

\* Step 6: FFmpegService.processVideo: the graph is built and the command
\* assembled inside the promise; both a synchronous throw and ffmpeg's
\* 'error' event reject with FFMPEG_PROCESSING_ERROR
Transcode ==
  /\ pc = "transcode"
  /\ \E outcome \in {"build_threw", "ffmpeg_error", "end"} :
       /\ outcome # "build_threw" => vreq.aspect \in ValidAspects
       /\ stageLog' = IF outcome = "build_threw" THEN Append(stageLog, "BuildGraph")
                      ELSE stageLog \o <<"BuildGraph", "Transcode">>
       /\ ffmpegCmd' = IF outcome = "build_threw" THEN ffmpegCmd
                       ELSE FfmpegCommand(vreq, localFiles, metadata)
       /\ IF outcome = "end"
          THEN /\ outputExists' = TRUE
               /\ pc' = StageAfter("transcode")
               /\ stagesDone' = stagesDone \cup {"BuildGraph", "Transcode"}
               /\ UNCHANGED <<err, failedAt>>
          ELSE /\ Raise(IF outcome = "build_threw" THEN "buildGraph" ELSE "transcode",
                        ProcessingError("FFMPEG_PROCESSING_ERROR", "video_processing",
                                        Detail(IF outcome = "build_threw"
                                               THEN "Failed to start FFmpeg processing"
                                               ELSE "FFmpeg video processing failed", <<>>)))
               /\ stagesDone' = IF outcome = "build_threw" THEN stagesDone
                                ELSE stagesDone \cup {"BuildGraph"}
               /\ UNCHANGED outputExists
  /\ UNCHANGED <<request, vreq, hasContext, dlCount, metadata, result, blobPc, thumbPc>>
  /\ UNCHANGED <<wsExists, thumbExists, cleanupLog>>
  /\ UNCHANGED <<downloaded, dlLog, localFiles>> /\ OrchFrame

\* Step 7: FFmpegService.generateThumbnail
GenerateThumbnail ==
  /\ pc = "thumbnail"
  /\ stageLog' = Append(stageLog, "GenerateThumbnail")
  /\ \E ok \in BOOLEAN :
       IF ok
       THEN /\ thumbExists' = TRUE
            /\ pc' = StageAfter("thumbnail")
            /\ stagesDone' = stagesDone \cup {"GenerateThumbnail"}
            /\ UNCHANGED <<err, failedAt>>
       ELSE /\ Raise("thumbnail",
                     ProcessingError("FFMPEG_PROCESSING_ERROR", "video_processing",
                                     Detail("FFmpeg thumbnail generation failed", <<>>)))
            /\ UNCHANGED <<thumbExists, stagesDone>>
  /\ UNCHANGED <<request, vreq, hasContext, dlCount, metadata, result, blobPc, thumbPc>>
  /\ UNCHANGED <<wsExists, outputExists, cleanupLog>> /\ UNCHANGED ctxVars /\ OrchFrame

\* Step 8: Promise.all([uploadOutput, uploadThumbnail, uploadToMux]) starts
\* the three branches
StartUploads ==
  /\ pc = "startUploads"
  /\ pc' = StageAfter("startUploads")
  /\ stageLog' = Append(stageLog, "UploadFork")
  /\ blobPc' = "running"
  /\ thumbPc' = "running"
  /\ muxPc' = "stat"
  /\ UNCHANGED <<request, vreq, hasContext, dlCount, metadata, err, failedAt, result>>
  /\ UNCHANGED <<uploadAssetId, assetId, statusRetries, retries, asset, lastThrew, statusThrew,
                 erroredSeen, statusCalls, assetCalls, assetWaits, polledIds, putResponse, muxOut>>
  /\ UNCHANGED fsVars /\ UNCHANGED <<calcVars, ctxVars, stagesDone, httpVars, pathVars>>

\* uploadOutput: BlobService.uploadVideo reads the rendered file and puts it
UploadOutput ==
  /\ blobPc = "running"
  /\ \E ok \in BOOLEAN :
       /\ blobPc' = IF ok /\ outputExists THEN "done" ELSE "failed"
       /\ Join(blobPc' = "failed", BlobUploadError, "blob",
               blobPc' = "done" /\ thumbPc = "done" /\ muxOut.kind = "returned")
  /\ UNCHANGED <<request, vreq, hasContext, dlCount, metadata, result, thumbPc>>
  /\ UNCHANGED fsVars /\ UNCHANGED <<ctxVars, logVars>> /\ OrchFrame

\* uploadThumbnail: BlobService.uploadThumbnail reads the thumbnail and puts it
UploadThumbnail ==
  /\ thumbPc = "running"
  /\ \E ok \in BOOLEAN :
       /\ thumbPc' = IF ok /\ thumbExists THEN "done" ELSE "failed"
       /\ Join(thumbPc' = "failed", ThumbnailUploadError, "thumbnailUpload",
               thumbPc' = "done" /\ blobPc = "done" /\ muxOut.kind = "returned")
  /\ UNCHANGED <<request, vreq, hasContext, dlCount, metadata, result, blobPc>>
  /\ UNCHANGED fsVars /\ UNCHANGED <<ctxVars, logVars>> /\ OrchFrame

\* the response reports the sum of the declared clip durations
ResponseDuration_ClipTotal(md) == md.totalClipDuration

\* duration: context.metadata.songDuration (line 97)
ResponseDuration(md) == md.songDuration

\* Steps 9 and 10: cleanup (its catch swallows a CLEANUP_ERROR) and the
\* 'completed' response
CleanupAndRespond ==
  /\ pc = "cleanup"
  /\ \E o \in CleanupOutcomes : CleanupDirectory(o)
  /\ IF CleanupStageThrows(cleanupLog'[Len(cleanupLog')] = "CLEANUP_ERROR")
     THEN /\ Raise("cleanup", CleanupError)
          /\ stageLog' = Append(stageLog, "Cleanup")
          /\ UNCHANGED <<result, stagesDone>>
     ELSE /\ result' = [status |-> "completed", error |-> NoErr,
                        muxAssetId |-> muxOut.assetId, muxPlaybackId |-> muxOut.playbackId,
                        duration |-> ResponseDuration(metadata)]
          /\ pc' = StageAfter("cleanup")
          /\ stageLog' = stageLog \o <<"Cleanup", "Respond">>
          /\ stagesDone' = stagesDone \cup {"Cleanup", "Respond"}
          /\ UNCHANGED <<err, failedAt>>
  /\ UNCHANGED <<request, vreq, hasContext, dlCount, metadata, blobPc, thumbPc>>
  /\ UNCHANGED ctxVars /\ OrchFrame

\* the catch block of processVideo (lines 113-143)
Catch ==
  /\ pc = "catch"
  /\ IF ShouldCleanup(hasContext, err)
     THEN \E o \in CleanupOutcomes : CleanupDirectory(o)
     ELSE UNCHANGED fsVars
  /\ result' = [NoResult EXCEPT
                  !.status = "failed",
                  !.error = IF ErrorPathCleanupThrows(
                                 cleanupLog' # cleanupLog
                                 /\ cleanupLog'[Len(cleanupLog')] = "CLEANUP_ERROR")
                            THEN CleanupError
                            ELSE Rethrown(err)]
  /\ pc' = "done"
  /\ UNCHANGED <<request, vreq, hasContext, dlCount, metadata, err, failedAt, blobPc, thumbPc>>
  /\ UNCHANGED <<ctxVars, logVars>> /\ OrchFrame

\* -------------------------------------------------------------- requests
ClipList(n) == [i \in 1..n |-> IF i % 2 = 1 THEN 80 ELSE 100]
LevelFor(n) ==
  CASE n % 3 = 1 -> "balanced" [] n % 3 = 2 -> "maximum" [] OTHER -> NoLevel

Requests ==
  {[clips |-> ClipList(n), aspect |-> IF n % 2 = 1 THEN "9:16" ELSE "16:9",
    t |-> IF n % 2 = 1 THEN Absent ELSE 10, compressionLevel |-> LevelFor(n)] :
     n \in 0..MaxClips}
  \cup {[clips |-> <<80>>, aspect |-> "4:3", t |-> Absent, compressionLevel |-> NoLevel],
        [clips |-> <<5>>, aspect |-> "9:16", t |-> Absent, compressionLevel |-> NoLevel],
        [clips |-> <<80>>, aspect |-> "16:9", t |-> 0, compressionLevel |-> "high"]}

Init ==
  /\ pc = "validate"
  /\ request \in Requests
  /\ vreq = NoRequest /\ hasContext = FALSE /\ dlCount = 0 /\ metadata = NoMetadata
  /\ err = NoErr /\ failedAt = "none" /\ result = NoResult
  /\ blobPc = "idle" /\ thumbPc = "idle"
  /\ wsExists = FALSE /\ outputExists = FALSE /\ thumbExists = FALSE /\ cleanupLog = <<>>
  /\ muxPc = "idle" /\ MuxIdle
  /\ CalcIdle
  /\ downloaded = <<>> /\ dlLog = <<>> /\ localFiles = NoFiles /\ ffmpegCmd = NoCmd
  /\ stageLog = <<>> /\ stagesDone = {}
  /\ HttpIdle /\ PathsIdle

Next ==
  \/ Validate \/ VerifyEngine \/ CreateWorkspace \/ DownloadAsset \/ ExtractMetadata
  \/ Transcode \/ GenerateThumbnail \/ StartUploads \/ UploadOutput \/ UploadThumbnail
  \/ MuxStat \/ MuxCreate \/ MuxPut \/ MuxStatusPoll \/ MuxAssetRetrieve \/ MuxAssetWait
  \/ CleanupAndRespond \/ Catch

Spec == Init /\ [][Next]_vars

\* ------------------------------------ calculateTransitionOffsets on its own
RECURSIVE SeqsUpTo(_, _)
SeqsUpTo(S, n) ==
  IF n = 0 THEN {<<>>}
  ELSE LET shorter == SeqsUpTo(S, n - 1)
       IN shorter \cup {Append(q, x) : q \in shorter, x \in S}

InitCalc ==
  /\ OrchIdle /\ MuxIdle /\ muxPc = "idle" /\ HttpIdle /\ PathsIdle
  /\ wsExists = FALSE /\ outputExists = FALSE
  /\ clipDurations \in SeqsUpTo(CalcDurations, MaxClips + 1)
  /\ transitionDuration \in CalcTransitions
  /\ offsets = <<>>
  /\ calcPc = "called"

Calculate ==
  /\ calcPc = "called"
  /\ offsets' = calculateTransitionOffsets(clipDurations, transitionDuration)
  /\ calcPc' = "returned"
  /\ UNCHANGED <<clipDurations, transitionDuration>>
  /\ UNCHANGED <<orchVars, fsVars, muxVars, ctxVars, logVars, httpVars, pathVars>>

NextCalc == Calculate

SpecCalc == InitCalc /\ [][NextCalc]_vars

\* ------------------- extractMetadata and the transcode on their own: the
\* pipeline right after downloadAssets, for every request of up to
\* MaxClips + 1 clips
GraphRequests ==
  {[clips |-> c, aspect |-> a, t |-> t, compressionLevel |-> NoLevel] :
     c \in SeqsUpTo(GraphDurations, MaxClips + 1) \ {<<>>},
     a \in ValidAspects, t \in GraphTransitions \cup {Absent}}

InitGraph ==
  /\ pc = "metadata"
  /\ request \in GraphRequests
  /\ vreq = Validated(request)
  /\ hasContext = TRUE /\ wsExists = TRUE /\ outputExists = FALSE /\ thumbExists = FALSE
  /\ dlCount = Len(request.clips) + 2
  /\ downloaded = DownloadOrder(Len(request.clips))
  /\ dlLog = [i \in 1..(Len(request.clips) + 2) |-> "ok"]
  /\ localFiles = [videoClips |-> [i \in 1..Len(request.clips) |-> ClipFile(i)],
                   assFile |-> AssFile, songFile |-> SongFile]
  /\ ffmpegCmd = NoCmd
  /\ stageLog = <<"Validate", "VerifyEngine", "CreateWorkspace", "DownloadAssets">>
  /\ stagesDone = {"Validate", "VerifyEngine", "CreateWorkspace", "DownloadAssets"}
  /\ metadata = NoMetadata /\ err = NoErr /\ failedAt = "none" /\ result = NoResult
  /\ blobPc = "idle" /\ thumbPc = "idle" /\ cleanupLog = <<>>
  /\ muxPc = "idle" /\ MuxIdle
  /\ CalcIdle /\ HttpIdle /\ PathsIdle

NextGraph == ExtractMetadata \/ Transcode

SpecGraph == InitGraph /\ [][NextGraph]_vars

\* ------------------ the catch block of processVideo on its own: entered
\* with any value a statement of the try block can throw
ProcessingErrorCodes ==
  {"VALIDATION_ERROR", "DOWNLOAD_FAILED", "METADATA_EXTRACTION_ERROR",
   "FFMPEG_PROCESSING_ERROR", "UPLOAD_FAILED", "CLEANUP_ERROR"}
ProcessingStages ==
  {"validation", "asset_download", "metadata_extraction", "ffmpeg_construction",
   "video_processing", "output_upload", "cleanup"}
CaughtErrors ==
  {ProcessingError(c, st, Detail("m", <<>>)) : c \in ProcessingErrorCodes, st \in ProcessingStages}
  \cup {PlainError(Detail(m, <<>>)) : m \in {"TypeError", "RangeError"}}

InitCatch ==
  /\ pc = "catch"
  /\ err \in CaughtErrors /\ failedAt = "thrown"
  /\ hasContext \in BOOLEAN /\ wsExists \in BOOLEAN
  /\ outputExists \in BOOLEAN /\ thumbExists \in BOOLEAN
  /\ wsExists => hasContext
  /\ outputExists => wsExists
  /\ thumbExists => outputExists
  /\ request = NoRequest /\ vreq = NoRequest /\ dlCount = 0 /\ metadata = NoMetadata
  /\ result = NoResult /\ blobPc = "idle" /\ thumbPc = "idle" /\ cleanupLog = <<>>
  /\ downloaded = <<>> /\ dlLog = <<>> /\ localFiles = NoFiles /\ ffmpegCmd = NoCmd
  /\ stageLog = <<>> /\ stagesDone = {}
  /\ muxPc = "idle" /\ MuxIdle
  /\ CalcIdle /\ HttpIdle /\ PathsIdle

NextCatch == Catch

SpecCatch == InitCatch /\ [][NextCatch]_vars

\* ------------------------------------------- the HTTP server (index.ts)
ServerFrame ==
  /\ UNCHANGED <<request, vreq, hasContext, dlCount, metadata, result, blobPc, thumbPc>>
  /\ UNCHANGED <<fsVars, muxVars, calcVars, ctxVars, logVars, pathVars>>
  /\ UNCHANGED <<httpReq, serverKey>>

\* app.get('/health'): no authentication
Health ==
  /\ pc = "received" /\ httpReq.path = "/health"
  /\ httpRes' = [status |-> 200, body |-> "healthy", code |-> "none", stage |-> "none"]
  /\ pc' = "responded"
  /\ UNCHANGED <<err, failedAt>> /\ ServerFrame

\* authenticateApiKey in front of the /process-video handler
Authenticate ==
  /\ pc = "received" /\ httpReq.path = "/process-video"
  /\ LET outcome == AuthOutcome(httpReq.key, serverKey)
     IN IF outcome = "config_error"
        THEN /\ httpRes' = [status |-> 500, body |-> "failed",
                            code |-> "CONFIGURATION_ERROR", stage |-> "authentication"]
             /\ pc' = "responded"
        ELSE IF outcome = "unauthorized"
        THEN /\ httpRes' = [status |-> 401, body |-> "failed",
                            code |-> "UNAUTHORIZED", stage |-> "authentication"]
             /\ pc' = "responded"
        ELSE /\ pc' = "construct"
             /\ UNCHANGED httpRes
  /\ UNCHANGED <<err, failedAt>> /\ ServerFrame

\* a missing credential is reported as a configuration error
ConstructorError_Configuration(o) ==
  ProcessingError("CONFIGURATION_ERROR", "validation", Detail("missing credential", <<>>))

\* what the constructor of BlobService or of MuxService throws
ConstructorError(o) ==
  ProcessingError("VALIDATION_ERROR", "validation",
                  Detail(IF o = "no_blob_token"
                         THEN "BLOB_READ_WRITE_TOKEN environment variable is required"
                         ELSE "MUX_TOKEN_ID and MUX_TOKEN_SECRET environment variables are required",
                         <<>>))

\* new VideoProcessor(): the constructors of BlobService and MuxService throw
\* VALIDATION_ERROR when their credentials are not configured; the handler
\* then calls processVideo(req.body)
Construct ==
  /\ pc = "construct"
  /\ \E o \in {"ok", "no_blob_token", "no_mux_credentials"} :
       IF o = "ok"
       THEN pc' = "validate" /\ UNCHANGED <<err, failedAt>>
       ELSE /\ pc' = "handlerCatch"
            /\ err' = ConstructorError(o)
            /\ failedAt' = "construct"
  /\ UNCHANGED httpRes /\ ServerFrame

\* the handler's response: 200 with the result, or the catch block's error body
HttpRespond ==
  /\ pc \in {"done", "handlerCatch"}
  /\ httpRes' = IF pc = "handlerCatch" THEN ErrorResponse(err)
                ELSE IF result.status = "completed"
                THEN [status |-> 200, body |-> "completed", code |-> "none", stage |-> "none"]
                ELSE ErrorResponse(result.error)
  /\ pc' = "responded"
  /\ UNCHANGED <<err, failedAt>> /\ ServerFrame

ServerBodies ==
  {[clips |-> <<80>>, aspect |-> "9:16", t |-> Absent, compressionLevel |-> NoLevel],
   [clips |-> <<80>>, aspect |-> "4:3", t |-> Absent, compressionLevel |-> NoLevel]}

InitServer ==
  /\ pc = "received"
  /\ httpReq \in {[path |-> p, key |-> k] :
                    p \in {"/health", "/process-video"}, k \in ApiKeys \cup {NoKey}}
  /\ serverKey \in {NoKey, "k1"}
  /\ httpRes = NoHttpRes
  /\ request \in ServerBodies
  /\ vreq = NoRequest /\ hasContext = FALSE /\ dlCount = 0 /\ metadata = NoMetadata
  /\ err = NoErr /\ failedAt = "none" /\ result = NoResult
  /\ blobPc = "idle" /\ thumbPc = "idle"
  /\ wsExists = FALSE /\ outputExists = FALSE /\ thumbExists = FALSE /\ cleanupLog = <<>>
  /\ muxPc = "idle" /\ MuxIdle
  /\ CalcIdle
  /\ downloaded = <<>> /\ dlLog = <<>> /\ localFiles = NoFiles /\ ffmpegCmd = NoCmd
  /\ stageLog = <<>> /\ stagesDone = {}
  /\ PathsIdle

NextServer == Health \/ Authenticate \/ Construct \/ HttpRespond \/ Next

SpecServer == InitServer /\ [][NextServer]_vars

\* ----------------------- two requests in flight: the paths each one touches
\* Each request has its own VideoProcessor, whose constructor draws the process
\* id; the actions record every file-system and object-store operation of the
\* request with the path the code computes for it.  The storage path of the
\* thumbnail is computed by a function that is not in the source tree, so only
\* the local read of the thumbnail upload is recorded.
PathsFrame == UNCHANGED <<orchVars, fsVars, muxVars, calcVars, ctxVars, logVars, httpVars>>

TempDirOf(r) == WorkspacePath(procs[r].processId)
OutputFileOf(r) == InWorkspace(TempDirOf(r), "final_video.mp4")
ThumbnailFileOf(r) == InWorkspace(TempDirOf(r), "thumbnail.jpg")
BlobPathOf(r) ==
  generateBlobPath(procs[r].songId,
                   generateFileName(procs[r].songId, procs[r].processId, "mp4"))

Moves(r, to, ops) ==
  /\ procs' = [procs EXCEPT ![r].pc = to]
  /\ diskOps' = diskOps \cup ops
  /\ PathsFrame

\* createContext -> createTempDirectory(this.processId); no context on failure
ReqCreateTempDirectory(r) ==
  /\ procs[r].pc = "constructed"
  /\ \E ok \in BOOLEAN :
       Moves(r, IF ok THEN "download" ELSE "done",
             {DiskOp(r, "mkdir", "local", TempDirOf(r))})

\* downloadAssets: one clip, the subtitle file and the song; on failure the
\* directory is removed by downloadAssets and again by the catch block
ReqDownloadAssets(r) ==
  /\ procs[r].pc = "download"
  /\ \E k \in 0..3 :
       LET names == <<"clip_1.mp4", "subtitles.ass", "song.mp3">>
           written == {DiskOp(r, "write", "local", InWorkspace(TempDirOf(r), names[i])) :
                         i \in 1..k}
       IN IF k = 3
          THEN Moves(r, "metadata", written)
          ELSE Moves(r, "done", written \cup {DiskOp(r, "rm", "local", TempDirOf(r))})

\* extractMetadata probes the downloaded song
ReqExtractMetadata(r) ==
  /\ procs[r].pc = "metadata"
  /\ \E ok \in BOOLEAN :
       LET probe == {DiskOp(r, "read", "local", InWorkspace(TempDirOf(r), "song.mp3"))}
       IN IF ok THEN Moves(r, "transcode", probe)
          ELSE Moves(r, "done", probe \cup {DiskOp(r, "rm", "local", TempDirOf(r))})

\* processVideo of the engine adapter: reads the inputs, writes final_video.mp4
ReqTranscode(r) ==
  /\ procs[r].pc = "transcode"
  /\ \E ok \in BOOLEAN :
       LET io == {DiskOp(r, "read", "local", InWorkspace(TempDirOf(r), n)) :
                    n \in {"clip_1.mp4", "subtitles.ass", "song.mp3"}}
                 \cup {DiskOp(r, "write", "local", OutputFileOf(r))}
       IN IF ok THEN Moves(r, "thumbnail", io)
          ELSE Moves(r, "done", io \cup {DiskOp(r, "rm", "local", TempDirOf(r))})

\* generateThumbnail: reads the render, writes thumbnail.jpg
ReqGenerateThumbnail(r) ==
  /\ procs[r].pc = "thumbnail"
  /\ \E ok \in BOOLEAN :
       LET io == {DiskOp(r, "read", "local", OutputFileOf(r)),
                  DiskOp(r, "write", "local", ThumbnailFileOf(r))}
       IN IF ok THEN Moves(r, "upload", io)
          ELSE Moves(r, "done", io \cup {DiskOp(r, "rm", "local", TempDirOf(r))})

\* the three uploads: uploadOutput puts the render at its blob path, the
\* thumbnail upload and the Mux upload read their local files; a failure at
\* output_upload skips the cleanup
ReqUploadFork(r) ==
  /\ procs[r].pc = "upload"
  /\ \E ok \in BOOLEAN :
       Moves(r, IF ok THEN "cleanup" ELSE "done",
             {DiskOp(r, "read", "local", OutputFileOf(r)),
              DiskOp(r, "read", "local", ThumbnailFileOf(r)),
              DiskOp(r, "put", "blob", BlobPathOf(r))})

\* cleanup -> cleanupDirectory(context.tempDir)
ReqCleanup(r) ==
  /\ procs[r].pc = "cleanup"
  /\ Moves(r, "done", {DiskOp(r, "rm", "local", TempDirOf(r))})

InitPaths ==
  /\ OrchIdle /\ MuxIdle /\ muxPc = "idle" /\ CalcIdle /\ HttpIdle
  /\ wsExists = FALSE /\ outputExists = FALSE
  /\ procs \in [Procs -> [processId : ProcessIds, songId : SongIds, pc : {"constructed"}]]
  /\ diskOps = {}

NextPaths ==
  \/ \E r \in Procs : ReqCreateTempDirectory(r)
  \/ \E r \in Procs : ReqDownloadAssets(r)
  \/ \E r \in Procs : ReqExtractMetadata(r)
  \/ \E r \in Procs : ReqTranscode(r)
  \/ \E r \in Procs : ReqGenerateThumbnail(r)
  \/ \E r \in Procs : ReqUploadFork(r)
  \/ \E r \in Procs : ReqCleanup(r)

SpecPaths == InitPaths /\ [][NextPaths]_vars

\* ================================================================ claims
ForkBranches == {"blob", "thumbnailUpload", "mux"}
PreTranscodeStages == {"download", "metadata", "buildGraph", "transcode"}
TimeoutMessage == "Mux asset did not become ready within the timeout period"

C2_WorkspaceGoneAfterEarlyFailure ==
  (pc = "done" /\ failedAt \in PreTranscodeStages) => ~wsExists

\* C2 amended: after such a failure cleanupDirectory has been called on the
\* workspace before the error is propagated, and the workspace no longer
\* exists unless every removal attempt failed (fs.rm raised, or fs.access
\* reported the directory as missing).
C2_EarlyFailureAttemptsCleanup ==
  (pc = "done" /\ failedAt \in PreTranscodeStages)
    => /\ result.status = "failed"
       /\ cleanupLog # <<>>
       /\ wsExists =>
            \A i \in 1..Len(cleanupLog) : cleanupLog[i] \in {"CLEANUP_ERROR", "no_access"}

C2_Witness ==
  /\ pc = "done" /\ failedAt = "transcode"
  /\ ~wsExists /\ cleanupLog = <<"removed">>

\* C3: once an asset retrieve has returned status 'errored', uploadVideo has
\* stopped and failed: no further retrieve, no further wait.
C3_ErroredStopsPolling ==
  erroredSeen => (muxPc = "done" /\ muxOut.kind = "thrown")

\* C4: the asset loop makes at most 30 retrieve calls and at most 30 waits;
\* when the budget is spent without a ready asset uploadVideo throws
\* UPLOAD_FAILED; and uploadVideo always terminates.
C4_BudgetInv ==
  /\ assetCalls <= maxRetries
  /\ assetWaits <= maxRetries
  /\ (muxPc = "assetRetrieve" => assetCalls < maxRetries)
  /\ (muxPc = "done" /\ muxOut.kind # "returned")
       => (muxOut.kind = "thrown" /\ muxOut.error.code = "UPLOAD_FAILED")

\* C4: the budget invariant holds throughout and uploadVideo eventually ends.
C4_AssetPollingTerminates == [](C4_BudgetInv) /\ <>(muxPc = "done")

C4_Witness ==
  /\ muxPc = "done" /\ assetCalls = maxRetries /\ lastThrew
  /\ muxOut.kind = "thrown" /\ muxOut.error.code = "UPLOAD_FAILED"

\* C5: when all other branches succeeded and an asset retrieve reported
\* 'errored', processVideo ends with UPLOAD_FAILED carrying the platform's
\* error messages, and the workspace is preserved.
C5_ErroredAssetFailsRequest ==
  (pc = "done" /\ erroredSeen /\ blobPc = "done" /\ thumbPc = "done")
    => /\ result.status = "failed"
       /\ result.error.code = "UPLOAD_FAILED"
       /\ result.error.detail.msg = "Mux asset processing failed"
       /\ wsExists

\* C6: uploadVideo returns only when the most recent asset retrieve reported
\* 'ready' with at least one playback entry, and it returns the polled asset
\* identifier with the identifier of the first playback entry.
C6_ReturnsOnlyWhenReady ==
  muxOut.kind = "returned"
    => /\ ~lastThrew
       /\ asset.status = "ready"
       /\ Len(asset.playback_ids) >= 1
       /\ muxOut.playbackId = asset.playback_ids[1]
       /\ muxOut.playbackId # ""
       /\ muxOut.assetId = assetId
       /\ polledIds = {muxOut.assetId}

C6_Witness ==
  /\ muxOut.kind = "returned" /\ muxOut.playbackId = "p1"
  /\ assetCalls >= 2 /\ statusCalls >= 1

\* C7: when the allocation returned no asset identifier, at most 10
\* upload-status polls are made; while no identifier is known no asset
\* retrieve is issued, and when the 10 polls are spent without one
\* uploadVideo has failed with UPLOAD_FAILED.
C7_StatusPollingBounded ==
  /\ statusCalls <= maxStatusRetries
  /\ assetId = NoId => assetCalls = 0
  /\ (statusCalls = maxStatusRetries /\ assetId = NoId)
       => /\ muxPc = "done"
          /\ muxOut.kind = "thrown"
          /\ muxOut.error.code = "UPLOAD_FAILED"

C7_Witness ==
  /\ uploadAssetId = NoId /\ putResponse = "2xx"
  /\ statusCalls = maxStatusRetries /\ assetId = NoId
  /\ muxPc = "done" /\ assetCalls = 0

\* C8: after a non-2xx response to the PUT, uploadVideo has failed with
\* UPLOAD_FAILED at stage output_upload and no upload-status poll and no
\* asset poll is ever made.
C8_PutFailureIsFatal ==
  putResponse = "non_2xx"
    => /\ muxPc = "done"
       /\ muxOut.kind = "thrown"
       /\ muxOut.error.code = "UPLOAD_FAILED"
       /\ muxOut.error.stage = "output_upload"
       /\ statusCalls = 0
       /\ assetCalls = 0

C8_Witness == putResponse = "non_2xx" /\ muxPc = "done" /\ uploadAssetId = NoId

\* C9: the two polling budgets are independent: the asset loop's counter
\* counts only the waits of the asset loop, the status loop's counter only
\* the upload-status polls, and the asset loop times out only after its own
\* 30 attempts, however many status polls were made.
C9_IndependentBudgets ==
  /\ statusRetries = statusCalls
  /\ retries = assetWaits
  /\ (muxPc = "assetRetrieve" => assetCalls = retries)
  /\ (muxOut.kind = "thrown" /\ muxOut.error.detail.msg = TimeoutMessage)
       => (assetCalls = maxRetries /\ assetWaits = maxRetries)

C9_Witness ==
  /\ statusCalls = maxStatusRetries /\ assetCalls = maxRetries
  /\ muxOut.kind = "thrown" /\ muxOut.error.detail.msg = TimeoutMessage

\* C10: for n >= 2 durations d and transition t, the result has n-1 entries,
\* offset[0] = d[0] - t, offset[i] = offset[i-1] + d[i] - t, the last
\* duration has no influence, and nothing is clamped (an offset may be
\* negative).
C10_OffsetsRecurrence ==
  (calcPc = "returned" /\ Len(clipDurations) >= 2)
    => LET n == Len(clipDurations)
           d == clipDurations
           t == transitionDuration
       IN /\ Len(offsets) = n - 1
          /\ offsets[1] = d[1] - t
          /\ \A i \in 2..(n - 1) : offsets[i] = offsets[i - 1] + d[i] - t
          /\ \A x \in CalcDurations :
               calculateTransitionOffsets([d EXCEPT ![n] = x], t) = offsets

C10_Witness ==
  /\ calcPc = "returned" /\ Len(clipDurations) = 3
  /\ Len(offsets) = 2 /\ offsets[1] < 0 /\ offsets[2] > offsets[1]

\* fair scheduling of uploadVideo's steps: timers fire and pending calls settle
SpecMuxFair == InitMux /\ [][NextMux]_vars /\ WF_vars(NextMux)

\* ------------------------------------------- the filter graph as it is read
HasFilter(stage, name) == \E f \in 1..Len(stage.filters) : stage.filters[f].name = name
IsFadeStage(stage) == HasFilter(stage, "xfade")
IsScaleStage(stage) == HasFilter(stage, "scale")
CmdStages == GraphStages(ffmpegCmd.filter)
FadeStages == SelectSeq(CmdStages, IsFadeStage)
ScaleStagesOfCmd == SelectSeq(CmdStages, IsScaleStage)

\* C11: for a single clip calculateTransitionOffsets returns the empty list
\* and the filter graph of the transcode has no cross-fade stage.
C11_SingleClipHasNoFade ==
  /\ ("ExtractMetadata" \in stagesDone /\ Len(vreq.clips) = 1)
       => metadata.transitionOffsets = <<>>
  /\ (ffmpegCmd.ran /\ Len(localFiles.videoClips) = 1)
       => FadeStages = <<>>

C11_Witness ==
  /\ ffmpegCmd.ran /\ Len(localFiles.videoClips) = 1 /\ Len(vreq.clips) = 1
  /\ "ExtractMetadata" \in stagesDone /\ Len(CmdStages) = 2

\* C12: for n >= 2 clips the graph has exactly n-1 fade stages forming a left
\* fold: the first combines v0 and v1, every later stage i combines the
\* output of stage i-1 with v_i, stage i carries the request's transition
\* duration and the i-th offset of the timing calculator, and the output of
\* the last fade stage is the merged stream read by the subtitle stage.
C12_FadesAreLeftFold ==
  (ffmpegCmd.ran /\ Len(localFiles.videoClips) >= 2)
    => LET n == Len(localFiles.videoClips)
           fades == FadeStages
       IN /\ Len(fades) = n - 1
          /\ fades[1].inputs = <<Label("v", 0), Label("v", 1)>>
          /\ \A i \in 2..(n - 1) :
               /\ Len(fades[i - 1].outputs) = 1
               /\ fades[i].inputs = fades[i - 1].outputs \o <<Label("v", i)>>
          /\ \A i \in 1..(n - 1) :
               fades[i].filters
                 = <<FilterTok("xfade", <<vreq.t, metadata.transitionOffsets[i]>>)>>
          /\ fades[n - 1].outputs = <<Label("video_out", 0)>>
          /\ CmdStages[Len(CmdStages)].inputs = fades[n - 1].outputs

C12_Witness ==
  /\ ffmpegCmd.ran /\ Len(localFiles.videoClips) = 3
  /\ Len(FadeStages) = 2
  /\ FadeStages[2].inputs = <<Label("fade", 1), Label("v", 2)>>

\* C13: the transcode takes its inputs in the order clip 0 .. clip n-1, song
\* (index n), subtitle file (index n+1); it maps the final video label of the
\* graph and the audio of input n, never the audio of a clip.
C13_InputsAndMapping ==
  ffmpegCmd.ran
    => LET n == Len(vreq.clips)
       IN /\ Len(ffmpegCmd.inputs) = n + 2
          /\ \A i \in 1..n : ffmpegCmd.inputs[i] = ClipFile(i)
          /\ ffmpegCmd.inputs[n + 1] = SongFile
          /\ ffmpegCmd.inputs[n + 2] = AssFile
          /\ CmdStages[Len(CmdStages)].outputs = <<ffmpegCmd.mapVideo>>
          /\ ffmpegCmd.mapAudio = n
          /\ ffmpegCmd.mapAudio \notin 0..(n - 1)

C13_Witness ==
  /\ ffmpegCmd.ran /\ Len(vreq.clips) = 2
  /\ ffmpegCmd.inputs = <<ClipFile(1), ClipFile(2), SongFile, AssFile>>
  /\ ffmpegCmd.mapAudio = 2

\* C14: the graph has exactly one scale stage per clip, reading input i and
\* writing label v_i, and it scales to 1080x1920 for 9:16 and to 1920x1080
\* for 16:9.
C14_ScalePerClip ==
  ffmpegCmd.ran
    => LET n == Len(vreq.clips)
           scales == ScaleStagesOfCmd
           size == IF vreq.aspect = "9:16" THEN <<1080, 1920>> ELSE <<1920, 1080>>
       IN /\ vreq.aspect \in {"9:16", "16:9"}
          /\ Len(scales) = n
          /\ \A i \in 1..n :
               /\ scales[i].inputs = <<Label("in", i - 1)>>
               /\ scales[i].outputs = <<Label("v", i - 1)>>
               /\ scales[i].filters[1] = FilterTok("scale", size)

C14_Witness ==
  /\ ffmpegCmd.ran /\ Len(vreq.clips) = 2 /\ vreq.aspect = "16:9"
  /\ Len(ScaleStagesOfCmd) = 2
  /\ ScaleStagesOfCmd[2].filters[1].args = <<1920, 1080>>

\* C15: every transcode carries an output-duration ceiling equal to the song
\* duration that the probe of the same request returned.
C15_CeilingIsSongDuration ==
  ffmpegCmd.ran
    => /\ "ExtractMetadata" \in stagesDone
       /\ metadata.songDuration \in SongDurations
       /\ ffmpegCmd.t = metadata.songDuration

C15_Witness ==
  /\ ffmpegCmd.ran /\ ffmpegCmd.t = 200
  /\ metadata.totalClipDuration = 110 /\ pc = "thumbnail"

\* ------------------------------------------------- the order of the stages
StageOrder ==
  <<"Validate", "VerifyEngine", "CreateWorkspace", "DownloadAssets", "ExtractMetadata",
    "BuildGraph", "Transcode", "GenerateThumbnail", "UploadFork", "Cleanup", "Respond">>
IsPrefix(a, b) == Len(a) <= Len(b) /\ a = SubSeq(b, 1, Len(a))
HasStarted(stage) == \E i \in 1..Len(stageLog) : stageLog[i] = stage
ForkCompleted == blobPc = "done" /\ thumbPc = "done" /\ muxOut.kind = "returned"
StageCompleted(stage) == IF stage = "UploadFork" THEN ForkCompleted ELSE stage \in stagesDone
BranchStarted == blobPc # "idle" \/ thumbPc # "idle" \/ muxPc # "idle"

\* C16: the stages start in the order Validate, VerifyEngine, CreateWorkspace,
\* DownloadAssets, ExtractMetadata, BuildGraph, Transcode, GenerateThumbnail,
\* upload fork, Cleanup, Respond; a stage starts only when every earlier stage
\* has completed successfully, and no upload branch starts before
\* GenerateThumbnail has completed.
C16_StagesStartInOrder ==
  /\ IsPrefix(stageLog, StageOrder)
  /\ \A j \in 2..Len(stageLog) : \A i \in 1..(j - 1) : StageCompleted(stageLog[i])
  /\ BranchStarted => (HasStarted("UploadFork") /\ "GenerateThumbnail" \in stagesDone)

C16_Witness ==
  /\ pc = "done" /\ stageLog = StageOrder /\ result.status = "completed"

\* C17: once a stage has failed, no later stage is started (no download, no
\* probe, no transcode, no thumbnail, no upload branch, no success response),
\* the first error is the one that is kept, and the request ends with exactly
\* that one error.
C17_Stops ==
  failedAt # "none" =>
    /\ stageLog' = stageLog /\ stagesDone' = stagesDone
    /\ downloaded' = downloaded /\ metadata' = metadata /\ ffmpegCmd' = ffmpegCmd
    /\ (blobPc = "idle" => blobPc' = "idle")
    /\ (thumbPc = "idle" => thumbPc' = "idle")
    /\ (muxPc = "idle" => muxPc' = "idle")
    /\ err' = err /\ failedAt' = failedAt
    /\ result'.status # "completed"
    /\ (result.status # "none" => result' = result)

C17_OneError ==
  /\ failedAt # "none" => (err # NoErr /\ pc \in {"catch", "done"})
  /\ (pc = "done" /\ failedAt # "none")
       => (result.status = "failed" /\ result.error = Rethrown(err))

C17_FailureStopsPipeline == [](C17_OneError) /\ [][C17_Stops]_vars

C17_Witness ==
  /\ pc = "done" /\ failedAt = "transcode" /\ result.status = "failed"
  /\ stageLog = SubSeq(StageOrder, 1, 7) /\ blobPc = "idle" /\ muxPc = "idle"

\* C18: on the success path cleanup does not start until all three upload
\* branches have completed successfully.
C18_CleanupAfterAllBranches ==
  (pc = "cleanup" \/ HasStarted("Cleanup")) => ForkCompleted

C18_Witness ==
  /\ pc = "cleanup" /\ ForkCompleted /\ wsExists /\ ~HasStarted("Cleanup")

\* C19: if at least one upload branch fails, processVideo never returns
\* 'completed', whatever the other branches do and in whatever order.
C19_BranchFailureNeverCompletes ==
  (blobPc = "failed" \/ thumbPc = "failed" \/ muxOut.kind = "thrown")
    => result.status # "completed"

C19_Witness ==
  /\ pc = "done" /\ thumbPc = "failed" /\ blobPc = "done" /\ muxOut.kind = "returned"
  /\ result.status = "failed" /\ failedAt = "thumbnailUpload"

\* C20: a failing cleanup never changes the outcome: when every stage
\* succeeded the result is 'completed' even if the removal failed, and when a
\* stage failed the caller gets that stage's error, never the cleanup's.
C20_CleanupFailureKeepsOutcome ==
  /\ (pc = "done" /\ ForkCompleted) => result.status = "completed"
  /\ (pc = "done" /\ failedAt # "none")
       => /\ result.status = "failed"
          /\ result.error = Rethrown(err)
          /\ result.error.code # "CLEANUP_ERROR" /\ failedAt # "cleanup"

C20_Witness ==
  /\ pc = "done" /\ result.status = "completed"
  /\ cleanupLog = <<"CLEANUP_ERROR">> /\ wsExists

\* C21: a failure inside processVideo that is not a ProcessingError reaches
\* the caller as a ProcessingError FFMPEG_PROCESSING_ERROR at stage
\* video_processing; whatever processVideo throws is a ProcessingError.
C21_NonDomainErrorsAreWrapped ==
  (pc = "done" /\ result.status = "failed")
    => /\ result.error.isPE
       /\ ~err.isPE => /\ result.error.code = "FFMPEG_PROCESSING_ERROR"
                       /\ result.error.stage = "video_processing"
                       /\ result.error.detail = err.detail

C21_Witness ==
  /\ pc = "done" /\ ~err.isPE /\ err.detail.msg = "TypeError"
  /\ result.error.isPE /\ result.error.code = "FFMPEG_PROCESSING_ERROR"
  /\ cleanupLog = <<"removed">>

\* the kind and stage with which each stage raises its error
RaisedKind(stage) ==
  CASE stage \in {"validate", "createWorkspace"} -> <<"VALIDATION_ERROR", "validation">>
    [] stage = "verify" -> <<"FFMPEG_PROCESSING_ERROR", "validation">>
    [] stage = "download" -> <<"DOWNLOAD_FAILED", "asset_download">>
    [] stage = "metadata" -> <<"METADATA_EXTRACTION_ERROR", "metadata_extraction">>
    [] stage \in {"buildGraph", "transcode", "thumbnail"}
         -> <<"FFMPEG_PROCESSING_ERROR", "video_processing">>
    [] stage \in ForkBranches -> <<"UPLOAD_FAILED", "output_upload">>

\* C22: a ProcessingError raised by a stage reaches the caller of
\* processVideo with the kind and the stage it was raised with.
C22_StageErrorsPropagateVerbatim ==
  (pc = "done" /\ failedAt # "none")
    => /\ err.isPE /\ <<err.code, err.stage>> = RaisedKind(failedAt)
       /\ result.status = "failed"
       /\ result.error.isPE
       /\ result.error.code = err.code /\ result.error.stage = err.stage
       /\ result.error.detail = err.detail

C22_Witness ==
  /\ pc = "done" /\ failedAt = "download" /\ result.status = "failed"
  /\ result.error.code = "DOWNLOAD_FAILED" /\ result.error.stage = "asset_download"

\* C23: a request whose aspect ratio is neither 9:16 nor 16:9 is rejected
\* with VALIDATION_ERROR before the engine is verified, before a workspace is
\* created and before any asset is downloaded.
C23_InvalidAspectRejectedFirst ==
  (request.aspect \notin {"9:16", "16:9"})
    => /\ pc \in {"validate", "catch", "done"}
       /\ IsPrefix(stageLog, <<"Validate">>) /\ stagesDone = {}
       /\ ~hasContext /\ ~wsExists /\ downloaded = <<>> /\ dlCount = 0
       /\ cleanupLog = <<>>
       /\ pc # "validate" => (err.isPE /\ err.code = "VALIDATION_ERROR")
       /\ pc = "done" => (result.status = "failed"
                          /\ result.error.code = "VALIDATION_ERROR")

C23_Witness ==
  /\ request.aspect = "4:3" /\ pc = "done" /\ result.status = "failed"
  /\ result.error.code = "VALIDATION_ERROR" /\ stageLog = <<"Validate">>

\* C24: when thumbnail generation fails after a successful transcode, the
\* caller gets an FFMPEG_PROCESSING_ERROR and the rendered file still exists
\* in the workspace.
C24_ThumbnailFailureKeepsRender ==
  (pc = "done" /\ failedAt = "thumbnail")
    => /\ result.error.code = "FFMPEG_PROCESSING_ERROR"
       /\ wsExists /\ outputExists

\* C28 as stated: when processVideo returns 'completed' the workspace has
\* been removed.
C28_CompletedMeansWorkspaceGone ==
  result.status = "completed" => ~wsExists

\* C28, amended: when processVideo returns 'completed', cleanupDirectory has
\* been called once on the workspace, and the workspace is gone unless that
\* removal failed (fs.rm raised, or fs.access reported the directory missing).
C28_CompletedMeansCleanupAttempted ==
  result.status = "completed"
    => /\ Len(cleanupLog) = 1
       /\ cleanupLog[1] = "removed" => (~wsExists /\ ~outputExists /\ ~thumbExists)
       /\ wsExists => cleanupLog[1] \in {"CLEANUP_ERROR", "no_access"}

C28_Witness ==
  /\ pc = "done" /\ result.status = "completed"
  /\ cleanupLog = <<"removed">> /\ ~wsExists /\ "CreateWorkspace" \in stagesDone

\* the stages of processVideo and the construction of the processor have not begun
NothingStarted ==
  /\ stageLog = <<>> /\ stagesDone = {} /\ ~wsExists /\ downloaded = <<>>
  /\ ~BranchStarted /\ result = NoResult /\ failedAt = "none"
  /\ pc \in {"received", "responded"}

\* C25: the status code of a failed /process-video response follows from the
\* error kind in its body: 400 for VALIDATION_ERROR, 401 for UNAUTHORIZED,
\* 500 for DOWNLOAD_FAILED, METADATA_EXTRACTION_ERROR, FFMPEG_PROCESSING_ERROR
\* and UPLOAD_FAILED; a request whose only failure is the cleanup is answered
\* with 200.
C25_StatusFollowsErrorKind ==
  (pc = "responded" /\ httpReq.path = "/process-video")
    => /\ httpRes.body = "failed" =>
            /\ httpRes.code = "VALIDATION_ERROR" => httpRes.status = 400
            /\ httpRes.code = "UNAUTHORIZED" => httpRes.status = 401
            /\ httpRes.code \in {"DOWNLOAD_FAILED", "METADATA_EXTRACTION_ERROR",
                                 "FFMPEG_PROCESSING_ERROR", "UPLOAD_FAILED"}
                 => httpRes.status = 500
            /\ httpRes.code # "CLEANUP_ERROR"
            /\ (failedAt # "none" /\ failedAt # "construct")
                 => (httpRes.code = err.code /\ httpRes.stage = err.stage)
       /\ (failedAt = "none" /\ result.status = "completed")
            => (httpRes.status = 200 /\ httpRes.body = "completed")
       /\ (failedAt = "none" /\ cleanupLog # <<>>
           /\ cleanupLog[Len(cleanupLog)] = "CLEANUP_ERROR")
            => httpRes.status = 200
       /\ httpRes.status \in {200, 400, 401, 500}
       /\ httpRes.status = 200 <=> result.status = "completed"

C25_Witness ==
  /\ pc = "responded" /\ httpReq.path = "/process-video"
  /\ httpRes.status = 400 /\ httpRes.code = "VALIDATION_ERROR"
  /\ request.aspect = "4:3" /\ failedAt = "validate"

C27_ConcurrentRequestsAreDisjoint ==
  \A r1 \in DOMAIN procs : \A r2 \in DOMAIN procs :
    (r1 # r2 /\ procs[r1].processId # procs[r2].processId)
      => /\ TempDirOf(r1) # TempDirOf(r2)
         /\ BlobPathOf(r1) # BlobPathOf(r2)
         /\ \A a \in diskOps : \A b \in diskOps :
              (a.by = r1 /\ b.by = r2 /\ a.op = "put" /\ b.op = "put")
                => a.path # b.path
         /\ \A a \in diskOps :
              (a.by = r1 /\ a.store = "local")
                => /\ ~IsPrefix(TempDirOf(r2), a.path)
                   /\ IsPrefix(TempDirOf(r1), a.path)

C27_Witness ==
  /\ procs # <<>>
  /\ procs[1].processId # procs[2].processId
  /\ procs[1].songId = procs[2].songId
  /\ procs[1].pc = "done" /\ procs[2].pc = "upload"
  /\ DiskOp(1, "put", "blob", BlobPathOf(1)) \in diskOps
  /\ DiskOp(1, "rm", "local", TempDirOf(1)) \in diskOps
  /\ DiskOp(2, "write", "local", OutputFileOf(2)) \in diskOps

\* C29: for n >= 2 clips the last offset plus the last clip's duration equals
\* the sum of the clip durations minus (n-1) times the transition duration;
\* for two clips of 8 s with a 0.5 s fade the offsets are [7.5] and the merged
\* length is 15.5 s (durations in tenths of a second).
C29_MergedLengthFromOffsets ==
  ("ExtractMetadata" \in stagesDone /\ Len(vreq.clips) >= 2)
    => LET n == Len(vreq.clips)
           o == metadata.transitionOffsets
           t == OrDefault(vreq.t)
       IN /\ Len(o) = n - 1
          /\ o[n - 1] + vreq.clips[n] = metadata.totalClipDuration - (n - 1) * t
          /\ metadata.totalClipDuration = SumSeq(vreq.clips)
          /\ (vreq.clips = <<80, 80>> /\ t = 5)
               => (o = <<75>> /\ o[1] + vreq.clips[2] = 155)

C29_Witness ==
  /\ "ExtractMetadata" \in stagesDone
  /\ vreq.clips = <<80, 80>> /\ OrDefault(vreq.t) = 5
  /\ metadata.transitionOffsets = <<75>>
  /\ metadata.totalClipDuration = 160

\* C30: for every clip count n >= 1 the last stage of the filter graph is
\* the subtitle burn-in, its single input is the merged stream (v0 for one
\* clip, video_out otherwise), and its output is the label vout that the
\* transcode maps as the video stream.
C30_SubtitleStageClosesGraph ==
  ffmpegCmd.ran
    => LET n == Len(localFiles.videoClips)
           last == CmdStages[Len(CmdStages)]
           merged == IF n = 1 THEN Label("v", 0) ELSE Label("video_out", 0)
       IN /\ Len(last.filters) = 1 /\ HasFilter(last, "ass")
          /\ last.inputs = <<merged>>
          /\ last.outputs = <<Label("vout", 0)>>
          /\ ffmpegCmd.mapVideo = Label("vout", 0)

\* C31: the duration of every 'completed' response is the song duration
\* probed for the request, whatever the declared clip durations and their
\* sum are.
C31_DurationIsProbedSongDuration ==
  result.status = "completed"
    => /\ "ExtractMetadata" \in stagesDone
       /\ result.duration = metadata.songDuration
       /\ result.duration \in SongDurations
       /\ metadata.totalClipDuration = SumSeq(vreq.clips)
       /\ result.duration # metadata.totalClipDuration
       /\ \A k \in 1..Len(vreq.clips) : result.duration # vreq.clips[k]

C31_Witness ==
  /\ result.status = "completed" /\ result.duration = 120
  /\ Len(vreq.clips) = 2 /\ metadata.totalClipDuration = 180

\* C32 as stated: when the download of a clip, of the subtitle file or of the
\* song fails or yields an empty file, no further asset is downloaded, the
\* workspace is removed, and the request fails with DOWNLOAD_FAILED at stage
\* asset_download.
C32_FailedDownload == dlLog # <<>> /\ dlLog[Len(dlLog)] # "ok"
C32_DownloadFailureRemovesWorkspace ==
  /\ \A i \in 1..Len(dlLog) : dlLog[i] # "ok" => i = Len(dlLog)
  /\ C32_FailedDownload
       => /\ failedAt = "download"
          /\ err.code = "DOWNLOAD_FAILED" /\ err.stage = "asset_download"
          /\ Len(downloaded) = Len(dlLog) - 1
  /\ (C32_FailedDownload /\ pc = "done")
       => /\ result.status = "failed"
          /\ result.error.code = "DOWNLOAD_FAILED"
          /\ result.error.stage = "asset_download"
          /\ ~wsExists

\* C32 amended: after such a download no further asset is downloaded, the
\* request fails with DOWNLOAD_FAILED at asset_download, and cleanupDirectory
\* has been called on the workspace by downloadAssets and again by
\* processVideo; the workspace is gone unless every removal attempt failed.
C32_DownloadFailureAttemptsCleanup ==
  /\ \A i \in 1..Len(dlLog) : dlLog[i] # "ok" => i = Len(dlLog)
  /\ C32_FailedDownload
       => /\ failedAt = "download"
          /\ err.code = "DOWNLOAD_FAILED" /\ err.stage = "asset_download"
          /\ Len(downloaded) = Len(dlLog) - 1
          /\ cleanupLog # <<>>
  /\ (C32_FailedDownload /\ pc = "done")
       => /\ result.status = "failed"
          /\ result.error.code = "DOWNLOAD_FAILED"
          /\ result.error.stage = "asset_download"
          /\ Len(cleanupLog) = 2
          /\ wsExists =>
               \A i \in 1..2 : cleanupLog[i] \in {"CLEANUP_ERROR", "no_access"}

C32_Witness ==
  /\ pc = "done" /\ dlLog = <<"ok", "ok", "empty_file">>
  /\ Len(vreq.clips) = 2 /\ downloaded = <<ClipFile(1), ClipFile(2)>>
  /\ result.error.code = "DOWNLOAD_FAILED" /\ ~wsExists

\* C33: the compression tier of the request selects the encoding settings of
\* the transcode: 'balanced', 'high' and 'maximum' each have their own
\* preset and quality, and the transcode of a validated request uses the
\* settings of the tier the request named; without a tier it uses 'high'.
C33_RequestTierIsApplied ==
  /\ \A a \in CompressionLevels : \A b \in CompressionLevels :
       a # b => (/\ CompressionSettings(a).crf # CompressionSettings(b).crf
                 /\ CompressionSettings(a).preset # CompressionSettings(b).preset)
  /\ ffmpegCmd.ran
       => LET level == IF request.compressionLevel = NoLevel THEN "high"
                       ELSE request.compressionLevel
          IN /\ ffmpegCmd.preset = CompressionSettings(level).preset
             /\ ffmpegCmd.crf = CompressionSettings(level).crf

\* the number of times a label is written as an output, or read as an input,
\* by the stages of the transcode's filter graph
TimesProduced(l) ==
  Cardinality({kj \in (1..Len(CmdStages)) \X (1..3) :
                 /\ kj[2] <= Len(CmdStages[kj[1]].outputs)
                 /\ CmdStages[kj[1]].outputs[kj[2]] = l})
TimesConsumed(l) ==
  Cardinality({kj \in (1..Len(CmdStages)) \X (1..3) :
                 /\ kj[2] <= Len(CmdStages[kj[1]].inputs)
                 /\ CmdStages[kj[1]].inputs[kj[2]] = l})

\* C34: in the graph of the transcode, for every clip count n >= 1, each
\* scaled label v_i and each fade label is produced by exactly one stage and
\* read exactly once as a stage input, and the subtitle stage has exactly one
\* input label.
C34_LabelsProducedAndConsumedOnce ==
  ffmpegCmd.ran
    => LET n == Len(localFiles.videoClips)
           scaled == {Label("v", i) : i \in 0..(n - 1)}
           faded == {FadeStages[k].outputs[1] : k \in 1..Len(FadeStages)}
       IN /\ \A k \in 1..Len(CmdStages) :
               Len(CmdStages[k].inputs) <= 3 /\ Len(CmdStages[k].outputs) <= 3
          /\ \A l \in scaled \cup faded : TimesProduced(l) = 1 /\ TimesConsumed(l) = 1
          /\ Len(CmdStages[Len(CmdStages)].inputs) = 1

\* an upload branch has been started and has not settled
BranchInFlight ==
  blobPc = "running" \/ thumbPc = "running" \/ muxPc \notin {"idle", "done"}

\* C35: cleanupDirectory is never called on the workspace while a branch of
\* the upload fork is in flight; when one branch fails while the others are
\* still running, the workspace and its files stay until the others settle.
C35_CleanupStep == (cleanupLog' # cleanupLog) => ~BranchInFlight
C35_KeptWhileInFlight ==
  BranchInFlight => (wsExists /\ outputExists /\ thumbExists /\ cleanupLog = <<>>)
C35_NoCleanupWhileBranchInFlight ==
  [](C35_KeptWhileInFlight) /\ [][C35_CleanupStep]_vars

C35_Witness ==
  /\ pc = "done" /\ failedAt = "blob" /\ result.status = "failed"
  /\ thumbPc = "running" /\ muxPc \notin {"idle", "done"}
  /\ wsExists /\ outputExists /\ cleanupLog = <<>>

\* C36: in the asset-polling phase an exception of assets.retrieve on an
\* attempt other than the 30th is followed by a wait and another attempt,
\* and an exception on the 30th attempt ends the phase with UPLOAD_FAILED
\* whose detail is the exception's message; in the upload-status phase an
\* exception of uploads.retrieve uses up one of the 10 attempts and does not
\* end the phase before the 10th.
C36_RetrieveStep ==
  /\ (assetCalls' = assetCalls + 1 /\ lastThrew' /\ assetCalls' < maxRetries)
       => (muxPc' = "assetWait" /\ muxOut' = NoMuxOut /\ retries' = retries)
  /\ (muxPc = "assetWait" /\ lastThrew /\ muxPc' # muxPc)
       => (muxPc' = "assetRetrieve" /\ retries' = retries + 1 /\ AssetLoopContinues(retries'))
  /\ (statusCalls' = statusCalls + 1 /\ statusThrew')
       => (statusRetries' = statusRetries + 1 /\ assetId' = NoId)
C36_ExceptionOutcome ==
  /\ (lastThrew /\ assetCalls < maxRetries)
       => (muxPc \in {"assetWait", "assetRetrieve"} /\ muxOut = NoMuxOut)
  /\ (lastThrew /\ assetCalls = maxRetries)
       => /\ muxPc = "done" /\ muxOut.kind = "thrown"
          /\ muxOut.error.code = "UPLOAD_FAILED"
          /\ muxOut.error.detail = Detail("assets.retrieve failed", <<>>)
  /\ (statusThrew /\ statusCalls < maxStatusRetries)
       => (muxPc = "statusPoll" /\ muxOut = NoMuxOut /\ assetCalls = 0)
  /\ (statusThrew /\ statusCalls = maxStatusRetries)
       => (muxPc = "done" /\ muxOut.kind = "thrown" /\ assetCalls = 0)
C36_RetrieveExceptionsAreRetried ==
  [](C36_ExceptionOutcome) /\ [][C36_RetrieveStep]_vars

C36_Witness ==
  /\ lastThrew /\ assetCalls = 3 /\ retries = 3 /\ muxPc = "assetRetrieve"
  /\ statusCalls = 2 /\ assetId # NoId

\* C37: when uploads.create already returned an asset id, uploadVideo makes
\* no upload-status poll and polls the asset endpoint with exactly that id;
\* in every execution an asset retrieve is made only after the PUT of the
\* bytes succeeded and an asset id is known.
C37_AssetPollNeedsTransferAndId ==
  /\ uploadAssetId # NoId
       => (statusCalls = 0 /\ polledIds \subseteq {uploadAssetId}
           /\ assetId \in {NoId, uploadAssetId})
  /\ (assetCalls > 0 \/ muxPc \in {"assetRetrieve", "assetWait"})
       => (putResponse = "2xx" /\ assetId # NoId /\ polledIds \subseteq {assetId})
  /\ assetCalls > 0 => polledIds = {assetId}
  /\ assetCalls = 0 => polledIds = {}

C37_Witness ==
  /\ uploadAssetId = "a1" /\ putResponse = "2xx"
  /\ assetCalls = 2 /\ statusCalls = 0 /\ polledIds = {"a1"}

\* C38: processVideo never fails with a CLEANUP_ERROR: what cleanupDirectory
\* raises is swallowed on the success path and on the error path, so the
\* handler never sends a 'failed' body with CLEANUP_ERROR, and never a
\* 'failed' body with status 200.
C38_CleanupErrorNeverSurfaces ==
  /\ err.code # "CLEANUP_ERROR"
  /\ result.error.code # "CLEANUP_ERROR"
  /\ failedAt # "cleanup"
  /\ httpRes.code # "CLEANUP_ERROR"
  /\ ~(httpRes.body = "failed" /\ httpRes.status = 200)
  /\ getHttpStatusCode("CLEANUP_ERROR") = 200

C38_Witness ==
  /\ pc = "responded" /\ failedAt = "transcode"
  /\ cleanupLog = <<"CLEANUP_ERROR">> /\ wsExists
  /\ httpRes.body = "failed" /\ httpRes.code = "FFMPEG_PROCESSING_ERROR"
  /\ httpRes.status = 500

\* C39: when the blob token or the Mux token pair is not configured, the
\* request fails while the VideoProcessor is constructed, with a
\* VALIDATION_ERROR that the handler answers with HTTP 400; no stage of the
\* pipeline runs and no workspace is created.
C39_MissingCredentialIsValidationError ==
  failedAt = "construct"
    => /\ err.isPE /\ err.code = "VALIDATION_ERROR" /\ err.stage = "validation"
       /\ pc \in {"handlerCatch", "responded"}
       /\ stageLog = <<>> /\ stagesDone = {} /\ vreq = NoRequest
       /\ ~wsExists /\ ~hasContext /\ cleanupLog = <<>> /\ dlLog = <<>>
       /\ ~BranchStarted /\ result = NoResult
       /\ httpReq.key = serverKey /\ serverKey # NoKey
       /\ pc = "responded"
            => /\ httpRes.status = 400 /\ httpRes.body = "failed"
               /\ httpRes.code = "VALIDATION_ERROR" /\ httpRes.stage = "validation"

C39_Witness ==
  /\ failedAt = "construct" /\ pc = "responded" /\ httpRes.status = 400
  /\ err.detail.msg = "BLOB_READ_WRITE_TOKEN environment variable is required"
  /\ request.aspect = "9:16" /\ stageLog = <<>>

\* C40: clip order is kept from the request to the transcode, and no stage
\* modifies the validated request: the k-th clip of the request is the k-th
\* file downloaded, the k-th entry of the local clip list and the k-th input
\* of the transcode, and the clip list, the durations and the transition
\* duration stay as validated until the response.
C40_OrderKept ==
  /\ \A k \in 1..Len(downloaded) :
       k <= Len(vreq.clips) => downloaded[k] = ClipFile(k)
  /\ "DownloadAssets" \in stagesDone
       => /\ Len(localFiles.videoClips) = Len(vreq.clips)
          /\ \A k \in 1..Len(vreq.clips) : localFiles.videoClips[k] = ClipFile(k)
  /\ ffmpegCmd.ran
       => \A k \in 1..Len(vreq.clips) : ffmpegCmd.inputs[k] = ClipFile(k)
  /\ vreq # NoRequest
       => /\ vreq.clips = request.clips
          /\ vreq.aspect = request.aspect
          /\ vreq.t = (IF request.t = Absent THEN DefaultTransition ELSE request.t)
  /\ "ExtractMetadata" \in stagesDone
       => metadata.totalClipDuration = SumSeq(request.clips)
C40_RequestUntouched ==
  /\ request' = request
  /\ vreq # NoRequest => vreq' = vreq
C40_ClipOrderAndRequestPreserved ==
  [](C40_OrderKept) /\ [][C40_RequestUntouched]_vars

C40_Witness ==
  /\ pc = "done" /\ result.status = "completed"
  /\ vreq.clips = <<80, 100>> /\ vreq.t = 10
  /\ downloaded = <<ClipFile(1), ClipFile(2), AssFile, SongFile>>
  /\ ffmpegCmd.inputs = <<ClipFile(1), ClipFile(2), SongFile, AssFile>>

====
